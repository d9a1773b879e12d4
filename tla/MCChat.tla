------------------------------- MODULE MCChat -------------------------------
(* Instances of Chat for TLC. *)
EXTENDS Chat, TLC

CONSTANTS t1, t2, t3

ThreeTopics == {t1, t2, t3}
TopicSymmetry == Permutations(ThreeTopics)
BothProfiles == BOOLEAN
ReleaseProfile == {FALSE}

=============================================================================
