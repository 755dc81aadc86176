------------------------------ MODULE MCCache -------------------------------
(* A few workers on a cache of two torrents for TLC.                       *)
EXTENDS TorrentCache
CONSTANTS w1, w2, w3, h1, h2, a, b, none

\* One hash, two, and one twice; the hashes are alike, so this is enough.
Scrapes2 == {<<h1>>, <<h1, h2>>, <<h1, h1>>}
=============================================================================
