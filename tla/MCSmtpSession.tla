---------------------------- MODULE MCSmtpSession ----------------------------
(* Small instances of SmtpSession: batches of up to three messages, with a message
   without recipients and one whose second recipient is not taken; and single messages
   with every combination of plain text, HTML, files and hidden recipients, in which
   lines with dots look like the end of the data. *)
EXTENDS SmtpSession

MCAddrs == {"ann", "bob", "nobody"}

Words == Line(0, <<"words">>)
Dotted == Line(1, <<"words">>)

Letter(tos, cc, bcc, text, html, files) ==
    [to |-> tos, cc |-> cc, bcc |-> bcc, subject |-> "subject",
     text |-> text, html |-> html, files |-> files]

Note(tos) == Letter(tos, <<>>, <<>>, <<Words>>, <<>>, <<>>)

One == Note(<<"ann", "bob">>)
Two == Letter(<<>>, <<"bob">>, <<>>, <<EndOfData, Words>>, <<>>, <<>>)
Refused == Letter(<<"ann">>, <<>>, <<"nobody">>, <<Words>>, <<>>, <<>>)

Letters ==
    {Letter(<<"ann">>, <<>>, bcc, text, html, files) :
        bcc \in {<<>>, <<"bob">>},
        text \in {<<>>, <<Words>>, <<Dotted, EndOfData, Line(2, <<"">>), Blank, Words>>},
        html \in {<<>>, <<EndOfData, Blank>>},
        files \in {<<>>, <<<<Words>>, <<>>>>}}

MCBatches ==
    {<<>>, <<One>>, <<One, Two>>, <<Refused, Two>>, <<Note(<<>>), One>>, <<Two, Refused, One>>}
        \cup {<<letter>> : letter \in Letters}
=============================================================================
