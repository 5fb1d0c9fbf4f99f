------------------------ MODULE ConfigurationAgent ------------------------
(***************************************************************************)
(* What the replica agent promises the controller, with its journal, its   *)
(* stages, its crashes and its concurrent command drivers left out: one    *)
(* authority is in force at a time and only ever moves forward; writes are *)
(* granted only to the primary of the authority in force; an authority is  *)
(* replaced only after writes are closed; and a command is reported as     *)
(* finished only under the authority it asked for.                         *)
(***************************************************************************)
EXTENDS Naturals

CONSTANTS NoAuthority, Authorities, Commands

VARIABLES
    authority,   \* the authority in force
    granted,     \* the epoch writes are granted in; 0 when they are closed
    finished     \* the last command reported as finished

agentVars == <<authority, granted, finished>>

Number(a) == IF a = NoAuthority THEN 0 ELSE a.cur.epoch

\* A newer epoch, or the same configuration without its previous one.
Follows(a, b) ==
    \/ Number(a) > Number(b)
    \/ Number(a) = Number(b) /\ a.cur = b.cur /\ a.prev = NoAuthority

AgentInit ==
    /\ authority \in Authorities \cup {NoAuthority}
    /\ granted = 0 /\ finished = NoAuthority

Admit(a) ==
    /\ Follows(a, authority)
    /\ authority' = a /\ granted' = 0
    /\ UNCHANGED finished

Grant ==
    /\ authority # NoAuthority /\ authority.cur.role = "Primary"
    /\ granted' = Number(authority)
    /\ UNCHANGED <<authority, finished>>

Close == granted' = 0 /\ UNCHANGED <<authority, finished>>

Finish(c) ==
    /\ authority # NoAuthority /\ c.cur = authority.cur
    /\ finished # NoAuthority => finished.cur.epoch <= c.cur.epoch
    /\ finished' = c
    /\ UNCHANGED <<authority, granted>>

AgentNext ==
    \/ \E a \in Authorities : Admit(a)
    \/ Grant \/ Close
    \/ \E c \in Commands : Finish(c)

AgentSpec == AgentInit /\ [][AgentNext]_agentVars
=============================================================================
