-------------------------- MODULE MCImapConnection ---------------------------
(* Small instances of ImapConnection.                                        *)
EXTENDS ImapConnection

MCScripts ==
    {<<"list", "select", "fetch">>, <<"list", "select", "store", "fetch">>,
     <<"list", "select", "fetch", "select">>}

MCCharacters == {"a", "b", "e", " ", "NIL", DQuote, Backslash}

\* A plain name with a space, one that looks like the absence of one, and two that differ
\* after a quote or a backslash.
MCMailboxes == {<<"a", " ", "b">>, <<"NIL", "e">>, <<"a", DQuote, "b">>, <<"a", Backslash>>}

\* A message that quotes the end of the fetch, and one that quotes another message.
MCTexts ==
    {<<Piece("text"), Tagged(3, TRUE)>>, <<Fetch(9, 1), Tagged(4, FALSE), Piece("rest")>>}
=============================================================================
