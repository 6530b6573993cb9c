----------------------------- MODULE MCProcess -----------------------------
(***************************************************************************)
(* One process and three clients: its maker, who also joins it, and two    *)
(* others who interrupt and resume it.                                     *)
(***************************************************************************)
EXTENDS Process

CONSTANTS p1, maker, user1, user2

OneProcess == {p1}
ThreeClients == {maker, user1, user2}

\* One client resumes.
OneResumer(c) == CASE c = maker -> {"start", "join"}
                   [] c = user1 -> {"suspend", "kill", "resume"}
                   [] OTHER     -> {"suspend"}

\* Two clients resume.
TwoResumers(c) == IF c = maker THEN {"start", "join"} ELSE {"suspend", "resume"}
=============================================================================
