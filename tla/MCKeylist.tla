----------------------------- MODULE MCKeylist ------------------------------
(***************************************************************************)
(* An instance of Keylist for TLC: which lines gpg prints.                 *)
(***************************************************************************)
EXTENDS Keylist

Pub == Line("pub", 20, "")
Fpr(f) == Line("fpr", 11, f)

\* Records with signatures, notations and trust information.
Signed ==
  {Pub, Line("uid", 20, ""), Line("sig", 11, ""), Line("spk", 5, "notation"),
   Line("tfs", 10, "ok")}

\* Keys with subkeys and fingerprints, and records that are not complete.
Subkeys ==
  {Pub, Line("sub", 18, "de-vs"), Fpr("a"), Fpr("b"), Line("uid", 9, ""),
   Line("uid", 20, "")}

\* A short listing for the loop.
Plain == {Pub, Line("uid", 20, "")}

\* Keys for gpgme_get_key.
Keys == {Pub, Fpr("a"), Fpr("b")}

\* What a keyserver prints.
Keyserver ==
  {Line("info", 3, ""), Line("pub", 7, ""), Line("pub", 7, "a"), Line("pub", 2, ""),
   Line("uid", 5, "r"), Line("uid", 2, "")}

\* The items of a trust listing: a key and a user ID.
TrustItems == {Line("K", 9, ""), Line("U", 9, "name")}

Listing(client, lines, external, max, chunk, n) ==
  [client |-> client, lines |-> lines, external |-> external, nomemory |-> FALSE,
   junk |-> {FALSE}, max |-> max, chunk |-> chunk, calls |-> n]

MCListings ==
  {Listing("app", Plain, FALSE, 4, 2, 2), Listing("app", Signed, FALSE, 4, 2, 1),
   Listing("app", Subkeys, FALSE, 3, 2, 1), Listing("app", Keyserver, TRUE, 3, 2, 1),
   Listing("get", Keys, FALSE, 5, 2, 1), Listing("trust", TrustItems, FALSE, 4, 2, 1)}
=============================================================================
