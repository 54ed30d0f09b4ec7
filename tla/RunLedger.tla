------------------------------- MODULE RunLedger -------------------------------
(***************************************************************************)
(* What the sync jobs promise whoever triggers them: a ledger of the work  *)
(* that was accepted or is running, and the mark that a job with a         *)
(* schedule shows while it is.  Nothing accepted is dropped while the      *)
(* process lives; one commit marks or unmarks a job together with the      *)
(* entry it is about, whatever other work the job has.                     *)
(***************************************************************************)
CONSTANTS
  Jobs,
  Reqs  \* requests; each job is also a timer, which starts work unasked

VARIABLES
  up,      \* does the process serve?
  listed,  \* the jobs that have a schedule, where the mark is kept
  ledger,  \* ledger[x]: the entry of a request or a timer
  shown    \* shown[j]: the mark of job j

ledgerVars == <<up, listed, ledger, shown>>

Workers == Reqs \cup Jobs

NoEntry == [at |-> "none"]

Accepted(j) == [at |-> "accepted", job |-> j]
Running(j) == [at |-> "running", job |-> j]

Marked(j, b) == shown' = [shown EXCEPT ![j] = b /\ j \in listed]

Enters(x, from, to) ==
  /\ up /\ ledger[x] = from
  /\ ledger' = [ledger EXCEPT ![x] = to]
  /\ UNCHANGED <<up, listed>>

LedgerInit ==
  /\ up = FALSE
  /\ listed = {}
  /\ ledger = [x \in Workers |-> NoEntry]
  /\ shown = [j \in Jobs |-> FALSE]

Accept(r, j) == Enters(r, NoEntry, Accepted(j)) /\ Marked(j, TRUE)

Begin(r, j) == Enters(r, Accepted(j), Running(j)) /\ Marked(j, TRUE)

BeginTimer(j) == Enters(j, NoEntry, Running(j)) /\ Marked(j, TRUE)

End(x, j) == Enters(x, Running(j), NoEntry) /\ Marked(j, FALSE)

List(j) ==
  /\ up
  /\ listed' = listed \cup {j}
  /\ UNCHANGED <<up, ledger, shown>>

Halt ==
  /\ up /\ up' = FALSE
  /\ ledger' = [x \in Workers |-> NoEntry]
  /\ UNCHANGED <<listed, shown>>

Boot ==
  /\ ~up /\ up' = TRUE
  /\ shown' = [j \in Jobs |-> FALSE]
  /\ UNCHANGED <<listed, ledger>>

LedgerNext ==
  \/ \E j \in Jobs :
       \/ \E r \in Reqs : Accept(r, j) \/ Begin(r, j)
       \/ \E x \in Workers : End(x, j)
       \/ BeginTimer(j) \/ List(j)
  \/ Halt \/ Boot

LedgerSafe == LedgerInit /\ [][LedgerNext]_ledgerVars

\* Accepted work begins, work that runs ends, and a process that is down comes up.
LedgerLive ==
  /\ \A x \in Workers :
       /\ ledger[x].at = "accepted" ~> ledger[x].at = "running" \/ ~up
       /\ ledger[x].at = "running" ~> ledger[x].at # "running"
  /\ ~up ~> up

LedgerSpec == LedgerSafe /\ LedgerLive
=============================================================================
