---------------------------- MODULE ProcessTree ----------------------------
(***************************************************************************)
(* The owned child process of zero-process (child.rs) on Unix.  In Tree        *)
(* mode the child leads a process group of its own that its descendants     *)
(* inherit; otherwise it is a single process.  The child's number stays     *)
(* pinned while the root is unreaped or its group has members; afterwards   *)
(* the kernel may give it to a stranger.                                    *)
(*                                                                          *)
(* Several threads hold the same VerifiedChild.  A step is what one of them *)
(* does between two points where another may run: the child's mutex is free *)
(* between the precondition check of signal_graceful_for and its signals.   *)
(* Waits are bounded: each ends with what was waited for or with a timeout. *)
(***************************************************************************)
EXTENDS Naturals, FiniteSets

CONSTANTS Owners, MaxKids

VARIABLES grouped,    \* spawned in Tree mode
          root,       \* "running", "zombie" (exited, unreaped) or "reaped"
          kids,       \* live descendants in the group
          doomed,     \* SIGKILL has been sent to the group
          stranger,   \* the number now names an unrelated process or group
          slot,       \* the owned Child is in its slot
          settled, revoked,
          owner,      \* thread -> the step of its call
          fd,         \* thread -> what the pidfd of its detached escalation is pinned to
          struck      \* history: a signal reached a stranger

treeVars == <<grouped, root, kids, doomed, stranger, slot, settled, revoked, owner, fd, struck>>

Locked == \E o \in Owners : owner[o] \in {"probe", "term", "grace", "kill", "reap", "gone"}

Goto(o, step) == owner' = [owner EXCEPT ![o] = step]

\* try_wait reaps an exited root.
TryWait == root' = IF root = "zombie" THEN "reaped" ELSE root

\* kill(2) to the child's number: whoever bears it gets the signal.
Strikes == struck' = (struck \/ stranger)

-----------------------------------------------------------------------------
\* The kernel and the processes themselves.
RootExits ==
    /\ root = "running" /\ root' = "zombie"
    /\ UNCHANGED <<kids, doomed, stranger, slot, settled, revoked, owner, fd, struck>>

Forks ==
    /\ grouped /\ ~ doomed /\ kids < MaxKids /\ (root = "running" \/ kids > 0)
    /\ kids' = kids + 1
    /\ UNCHANGED <<root, doomed, stranger, slot, settled, revoked, owner, fd, struck>>

KidExits ==
    /\ kids > 0 /\ kids' = kids - 1
    /\ UNCHANGED <<root, doomed, stranger, slot, settled, revoked, owner, fd, struck>>

Recycled ==
    /\ root = "reaped" /\ kids = 0 /\ ~ stranger
    /\ stranger' = TRUE
    /\ UNCHANGED <<root, kids, doomed, slot, settled, revoked, owner, fd, struck>>

-----------------------------------------------------------------------------
\* verify_signal_preconditions: not revoked, the slot filled and, for a single
\* process, strict verification, whose try_wait reaps a root that has exited.
Preconditions(o) ==
    /\ owner[o] = "idle" /\ ~ Locked
    /\ IF grouped
       THEN Goto(o, IF revoked \/ ~ slot THEN "idle" ELSE "lock") /\ UNCHANGED root
       ELSE /\ Goto(o, IF ~ revoked /\ slot /\ root = "running" THEN "lock" ELSE "idle")
            /\ IF revoked \/ ~ slot THEN UNCHANGED root ELSE TryWait
    /\ UNCHANGED <<kids, doomed, stranger, slot, settled, revoked, fd, struck>>

LockChild(o) ==
    /\ owner[o] = "lock" /\ ~ Locked
    /\ Goto(o, IF ~ slot THEN "idle" ELSE IF grouped THEN "probe" ELSE "term")
    /\ UNCHANGED <<root, kids, doomed, stranger, slot, settled, revoked, fd, struck>>

\* A plausible slip: the exit of the root is observed by reaping it.
ReapingProbe(o) ==
    /\ owner[o] = "probe"
    /\ TryWait
    /\ Goto(o, "term")
    /\ UNCHANGED <<kids, doomed, stranger, slot, settled, revoked, fd, struck>>

\* terminate_tree_child looks whether the root can still be waited for, without
\* reaping it; if not, nothing is signalled.
Probe(o) ==
    /\ owner[o] = "probe"
    /\ Goto(o, IF root = "reaped" THEN "idle" ELSE "term")
    /\ UNCHANGED <<root, kids, doomed, stranger, slot, settled, revoked, fd, struck>>

\* SIGTERM to the group or the child; a single child that is gone is reaped and
\* the call ends.
SendTerm(o) ==
    /\ owner[o] = "term"
    /\ Strikes
    /\ IF ~ grouped /\ root = "reaped" /\ ~ stranger THEN Goto(o, "idle") ELSE Goto(o, "grace")
    /\ UNCHANGED <<root, kids, doomed, stranger, slot, settled, revoked, fd>>

\* The grace window: a tree is only observed, and a lost pin ends the call; a
\* single child is reaped as soon as it has exited, which ends the call too.
Grace(o) ==
    /\ owner[o] = "grace"
    /\ IF grouped
       THEN Goto(o, IF root = "reaped" THEN "idle" ELSE "kill") /\ UNCHANGED root
       ELSE \/ root # "running" /\ TryWait /\ Goto(o, "idle")
            \/ root = "running" /\ Goto(o, "kill") /\ UNCHANGED root
    /\ UNCHANGED <<kids, doomed, stranger, slot, settled, revoked, fd, struck>>

SendKill(o) ==
    /\ owner[o] = "kill"
    /\ Strikes /\ doomed' = TRUE
    /\ Goto(o, "reap")
    /\ UNCHANGED <<root, kids, stranger, slot, settled, revoked, fd>>

\* wait_child_exit: the root is reaped, or the wait times out and the call fails.
Reap(o) ==
    /\ owner[o] = "reap"
    /\ \/ root # "running" /\ TryWait /\ Goto(o, IF grouped THEN "gone" ELSE "idle")
       \/ root = "running" /\ Goto(o, "idle") /\ UNCHANGED root
    /\ UNCHANGED <<kids, doomed, stranger, slot, settled, revoked, fd, struck>>

\* wait_for_group_gone, and settled once the group has been seen empty.  The
\* number may already be a stranger's: the probe sends no signal.
GroupGone(o) ==
    /\ owner[o] = "gone"
    /\ settled' = (settled \/ (kids = 0 /\ ~ stranger))
    /\ Goto(o, "idle")
    /\ UNCHANGED <<root, kids, doomed, stranger, slot, revoked, fd, struck>>

\* revoke: refused for a tree that is not settled and for a running root;
\* otherwise the slot is emptied.
Revoke(o) ==
    /\ owner[o] = "idle" /\ ~ Locked /\ ~ revoked
    /\ ~ (grouped /\ ~ settled)
    /\ TryWait
    /\ IF slot /\ root = "running"
       THEN UNCHANGED <<slot, revoked>>
       ELSE slot' = FALSE /\ revoked' = TRUE
    /\ UNCHANGED <<kids, doomed, stranger, settled, owner, fd, struck>>

\* poll_exited: a tree's root is observed, a single child may be reaped.
PollExited(o) ==
    /\ owner[o] = "idle" /\ ~ Locked /\ slot /\ ~ grouped
    /\ TryWait
    /\ UNCHANGED <<kids, doomed, stranger, slot, settled, revoked, owner, fd, struck>>

\* escalate_detached, on Linux: the recorded process is live, a pidfd is opened
\* at its number, and the identity at the number is compared once more.
DetachedCheck(o) ==
    /\ owner[o] = "idle" /\ root # "reaped"
    /\ Goto(o, "open")
    /\ UNCHANGED <<root, kids, doomed, stranger, slot, settled, revoked, fd, struck>>

DetachedOpen(o) ==
    /\ owner[o] = "open"
    /\ fd' = [fd EXCEPT ![o] = IF stranger THEN "stranger"
                               ELSE IF root = "reaped" THEN "none" ELSE "own"]
    /\ Goto(o, IF fd'[o] = "none" THEN "idle" ELSE "verify")
    /\ UNCHANGED <<root, kids, doomed, stranger, slot, settled, revoked, struck>>

DetachedVerify(o) ==
    /\ owner[o] = "verify"
    /\ Goto(o, IF root = "reaped" THEN "idle" ELSE "pidfd")
    /\ UNCHANGED <<root, kids, doomed, stranger, slot, settled, revoked, fd, struck>>

DetachedSignal(o) ==
    /\ owner[o] = "pidfd"
    /\ struck' = (struck \/ fd[o] = "stranger")
    /\ Goto(o, "idle")
    /\ UNCHANGED <<root, kids, doomed, stranger, slot, settled, revoked, fd>>

\* The last owner drops an unsettled tree: the group is killed and the root
\* reaped only while the root can still be waited for.
Abandon ==
    /\ \A o \in Owners : owner[o] = "idle"
    /\ grouped /\ ~ settled /\ ~ revoked /\ root # "reaped" /\ slot
    /\ Strikes /\ doomed' = TRUE /\ slot' = FALSE
    /\ root' \in {"reaped", root}
    /\ owner' = [o \in Owners |-> "dropped"]
    /\ UNCHANGED <<kids, stranger, settled, revoked, fd>>

TreeInit ==
    /\ grouped \in BOOLEAN
    /\ root = "running" /\ kids = 0 /\ doomed = FALSE /\ stranger = FALSE
    /\ slot = TRUE /\ settled = FALSE /\ revoked = FALSE
    /\ owner = [o \in Owners |-> "idle"] /\ fd = [o \in Owners |-> "none"] /\ struck = FALSE

TreeNext == UNCHANGED grouped /\
   (\/ RootExits \/ Forks \/ KidExits \/ Recycled \/ Abandon
    \/ \E o \in Owners :
          \/ Preconditions(o) \/ LockChild(o) \/ Probe(o) \/ SendTerm(o) \/ Grace(o)
          \/ SendKill(o) \/ Reap(o) \/ GroupGone(o) \/ Revoke(o) \/ PollExited(o)
          \/ DetachedCheck(o) \/ DetachedOpen(o) \/ DetachedVerify(o) \/ DetachedSignal(o))

TreeSpec == TreeInit /\ [][TreeNext]_treeVars

-----------------------------------------------------------------------------
\* "The pid can be recycled between reading a pid file and signaling, so a
\* cancellation can terminate an unrelated replacement process" (child.rs:1): no
\* signal of a Tree child's owners ever reaches a process that is not the child
\* or its group, whatever the threads that share the child interleave.  (The
\* precondition check of a single child reaps, so it has no such pin.)
OnlyOwnProcess == grouped => ~ struck

\* A revoked tree is gone: its root is reaped, no descendant is left in its
\* group, and revocation never released the number before the sweep.
RevokedIsSwept == grouped /\ revoked => root = "reaped" /\ kids = 0 /\ settled

\* Revocation is exact: it strikes the whole tree and nothing else.
RevocationIsExact == OnlyOwnProcess /\ RevokedIsSwept
=============================================================================
