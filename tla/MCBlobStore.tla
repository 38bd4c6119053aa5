----------------------------- MODULE MCBlobStore -----------------------------
(* Small instances of BlobStore. *)
EXTENDS BlobStore, TLC

CONSTANTS m1, m2, m3, source1, source2, picture

\* Two messages with the same attachment, and the second message a second time, as another
\* synchronization fetches it.
SharedParts ==
    m1 :> {source1, picture} @@ m2 :> {source2, picture} @@ m3 :> {source2, picture}
=============================================================================
