------------------------------- MODULE CondVar -------------------------------
(***************************************************************************)
(* A POSIX condition variable as this program uses it.  Every critical     *)
(* section of the program is one atomic step of the modules that           *)
(* instantiate this one, so the mutex itself is not a variable: a thread   *)
(* that pthread_cond_wait has put to sleep is in waiting, and one that has *)
(* been woken but has not yet got the mutex back is in woken.              *)
(***************************************************************************)
VARIABLES waiting, woken

\* No thread sleeps on a new condition variable (pthread_cond_init).
Init == waiting = {} /\ woken = {}

\* pthread_cond_wait: the thread gives the mutex up and sleeps.
Wait(t) == /\ waiting' = waiting \cup {t}
           /\ woken'   = woken \ {t}

\* The thread leaves its wait loop (or never had to enter it).
Proceed(t) == /\ woken' = woken \ {t}
              /\ UNCHANGED waiting

\* The thread t goes from asleep to waiting for the mutex.
Awaken(t) == /\ waiting' = waiting \ {t}
             /\ woken'   = woken \cup {t}

\* pthread_cond_signal: some sleeper is woken; with no sleeper the signal
\* is lost, a condition variable does not count.
Signal == IF waiting = {} THEN UNCHANGED <<waiting, woken>>
                          ELSE \E t \in waiting : Awaken(t)

\* POSIX lets pthread_cond_wait return although nobody has signalled.
SpuriousWakeup == \E t \in waiting : Awaken(t)
=============================================================================
