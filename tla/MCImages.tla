------------------------------- MODULE MCImages -------------------------------
(* ImagePreflight for TLC: an image whose name has no path, with two blobs in *)
(* one of its repositories and one in the other.                             *)
EXTENDS ImagePreflight

MCRepos == {<<"nginx", "plain">>, <<"nginx", "library">>}
MCBlobsOf == [r \in MCRepos |-> IF r[2] = "plain" THEN {"config", "layer"} ELSE {"config"}]
MCOptions == {[check |-> TRUE, pull |-> FALSE, load |-> FALSE, force |-> FALSE],
              [check |-> FALSE, pull |-> TRUE, load |-> FALSE, force |-> FALSE],
              [check |-> TRUE, pull |-> TRUE, load |-> TRUE, force |-> TRUE]}
================================================================================
