------------------------------ MODULE TrafficGen -----------------------------
(***************************************************************************)
(* modules/gen/tg-tlm.h and traffic-desc.h: a generator with a number of   *)
(* threads, each of which replays the lists of transfers it is given.      *)
(* addTransfers() may be called before the simulation starts, while the    *)
(* thread waits for the target in b_transport(), and from the callback     *)
(* that the thread runs at the end of a list; it leaves one list and one   *)
(* callback per thread, and wakes the thread if that waits for m_proceed.  *)
(*                                                                         *)
(* Processes are not preempted: from one wait to the next a thread runs    *)
(* alone.  The target answers after any time.  A list is given to one      *)
(* thread; it may be given again when it has been replayed, but its        *)
(* iterator stays at its end.                                              *)
(***************************************************************************)
EXTENDS Naturals

CONSTANTS Threads,
          Lists,      \* the traffic descriptions of the program
          Transfers,  \* transfers of each
          MaxAdds     \* bound on the calls of addTransfers()

Null == 0

VARIABLES m_transfers, m_callback,   \* per thread: a list, the list with whose
                                     \* callback the thread reports
          process,                   \* per thread: what it does
          transfers,                 \* per thread: the list it replays
          m_it,                      \* per list: transfers done
          adds,
          reported                   \* history: lists whose callback has run
                                     \* after their last transfer

threadVars == <<m_transfers, m_callback, process, transfers>>
vars == <<threadVars, m_it, adds, reported>>

Init ==
  /\ m_transfers = [td \in Threads |-> Null]
  /\ m_callback = [td \in Threads |-> Null]
  /\ process = [td \in Threads |-> "unborn"]
  /\ transfers = [td \in Threads |-> Null]
  /\ m_it = [l \in Lists |-> 0]
  /\ adds = 0
  /\ reported = {}

done(l) == m_it[l] = Transfers

\* A thread that runs does not wait before it is in b_transport() or has
\* nothing left to do; no other process runs meanwhile.
Running(td) == process[td] \in {"looping", "generating", "callback"}
NobodyRuns == \A td \in Threads : ~ Running(td)

Has(td, l) == l \in {m_transfers[td], transfers[td]}

\* Proceed(): the notification is lost on a thread that does not wait.
Proceed(td) == IF process[td] = "waiting" THEN "ready" ELSE process[td]

\* addTransfers() with a callback or without one.
Given(td, l, c) ==
  /\ adds < MaxAdds /\ adds' = adds + 1
  /\ \A t \in Threads : ~ Has(t, l)
  /\ c \in {l, Null}
  /\ m_transfers' = [m_transfers EXCEPT ![td] = l]
  /\ m_callback' = [m_callback EXCEPT ![td] = c]

addTransfers(td, l) ==
  /\ NobodyRuns
  /\ \E c \in {l, Null} : Given(td, l, c)
  /\ process' = [process EXCEPT ![td] = Proceed(td)]
  /\ UNCHANGED <<transfers, m_it, reported>>

\* run(): the threads begin after the start delay.
run ==
  /\ NobodyRuns
  /\ \A td \in Threads : process[td] = "unborn"
  /\ process' = [td \in Threads |-> "ready"]
  /\ UNCHANGED <<m_transfers, m_callback, transfers, m_it, adds, reported>>

\* A turn of the loop in process(): GetTransfers() takes the list.
GetTransfers(td) ==
  /\ process[td] = "looping" \/ (process[td] = "ready" /\ NobodyRuns)
  /\ transfers' = [transfers EXCEPT ![td] = m_transfers[td]]
  /\ m_transfers' = [m_transfers EXCEPT ![td] = Null]
  /\ process' = [process EXCEPT ![td] =
       IF m_transfers[td] = Null THEN "callback" ELSE "generating"]
  /\ UNCHANGED <<m_callback, m_it, adds, reported>>

\* generate(): the next transfer goes to the target, or the list is done.
generate(td) ==
  /\ process[td] = "generating"
  /\ IF done(transfers[td])
     THEN /\ process' = [process EXCEPT ![td] = "callback"]
          /\ transfers' = [transfers EXCEPT ![td] = Null]
     ELSE /\ process' = [process EXCEPT ![td] = "transport"]
          /\ UNCHANGED transfers
  /\ UNCHANGED <<m_transfers, m_callback, m_it, adds, reported>>

\* b_transport() returns.
Answered(td) ==
  /\ process[td] = "transport" /\ NobodyRuns
  /\ m_it' = [m_it EXCEPT ![transfers[td]] = @ + 1]
  /\ process' = [process EXCEPT ![td] = "generating"]
  /\ UNCHANGED <<m_transfers, m_callback, transfers, adds, reported>>

\* Mutant of Done: a thread that has run its callback waits in any case.
DoneAnyway(td) == TRUE

Done(td) == m_transfers'[td] = Null

\* RunCallback(), which may add transfers to any thread, and the end of the
\* loop: the thread waits unless it has been given a list meanwhile.
RunCallback(td) ==
  /\ process[td] = "callback"
  /\ reported' = reported \cup {l \in Lists \cap {m_callback[td]} : done(l)}
  /\ \/ /\ UNCHANGED <<m_transfers, m_callback, adds>>
        /\ process' = [process EXCEPT ![td] = IF Done(td) THEN "waiting" ELSE "looping"]
     \/ /\ m_callback[td] # Null
        /\ \E other \in Threads, l \in Lists, c \in Lists \cup {Null} :
             /\ Given(other, l, c)
             /\ process' = [process EXCEPT ![other] = Proceed(other),
                                           ![td] = IF Done(td) THEN "waiting" ELSE "looping"]
  /\ UNCHANGED <<transfers, m_it>>

Next ==
  \/ run
  \/ \E td \in Threads, l \in Lists : addTransfers(td, l)
  \/ \E td \in Threads : GetTransfers(td) \/ generate(td) \/ Answered(td) \/ RunCallback(td)

\* The simulation starts, runs what can run, and the target answers.  (The other
\* threads cannot keep one from running for ever: MaxAdds bounds what they do.)
Spec ==
  /\ Init /\ [][Next]_vars
  /\ WF_vars(run)
  /\ \A td \in Threads :
       /\ WF_vars(GetTransfers(td)) /\ WF_vars(generate(td))
       /\ WF_vars(Answered(td)) /\ WF_vars(RunCallback(td))

-----------------------------------------------------------------------------

TypeOK ==
  /\ m_transfers \in [Threads -> Lists \cup {Null}]
  /\ m_callback \in [Threads -> Lists \cup {Null}]
  /\ process \in [Threads -> {"unborn", "ready", "looping", "generating", "transport",
                             "callback", "waiting"}]
  /\ transfers \in [Threads -> Lists \cup {Null}]
  /\ m_it \in [Lists -> 0 .. Transfers]
  /\ adds \in 0 .. MaxAdds /\ reported \subseteq Lists

\* A thread lets go of a list only after its last transfer, or because
\* addTransfers() has put another one in its place before it was taken.
LetsGoWhenDone ==
  \A td \in Threads, l \in Lists :
    Has(td, l) /\ ~ Has(td, l)' => done(l) \/ m_transfers'[td] \notin {l, Null}

\* No wake-up is lost: a list that is given to a thread, whatever the thread does
\* then, is let go of in the end.  And the callback given with a list runs after
\* the list was replayed, unless a later call replaces it, although a list before
\* it may also run it.
ListsReplayed ==
  /\ [][LetsGoWhenDone]_vars
  /\ \A td \in Threads, l \in Lists :
       /\ Has(td, l) ~> ~ Has(td, l)
       /\ (m_callback[td] = l) ~> (m_callback[td] # l \/ l \in reported)
=============================================================================
