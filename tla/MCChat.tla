------------------------------- MODULE MCChat -------------------------------
(* Small instances of Chat.                                                *)
EXTENDS Chat, TLC

CONSTANTS s1, s2, ana, dot, marks, d1

MCSymmetry == Permutations({s1, s2})

\* The name "." has chat_histories/ itself, a name such as "???" no directory;
\* names with the same directory are the same user to the code.
MCSafeName == ana :> d1 @@ dot :> Root @@ marks :> NoDir
=============================================================================
