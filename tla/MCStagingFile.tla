--------------------------- MODULE MCStagingFile ---------------------------
(***************************************************************************)
(* Small instances of StagingFile for TLC.                                 *)
(***************************************************************************)
EXTENDS StagingFile, TLC

CONSTANTS a, b

\* "long" ends in a chunk of zeros, which a freshly reserved file also has;
\* "short" shares no bytes with it; "empty" has no chunk at all.
MCData ==
    [v \in Version |->
        [c \in Region |->
            CASE v = "long"  -> IF c > 0 /\ c = Regions - 1 THEN Zero ELSE a
              [] v = "short" -> IF c = 0 THEN b ELSE Absent
              [] OTHER       -> Absent]]

StreamSymmetry == Permutations(Stream)
=============================================================================
