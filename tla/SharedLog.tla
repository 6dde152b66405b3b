----------------------------- MODULE SharedLog -----------------------------
(***************************************************************************)
(* What the hub promises the fleet, without queues, retries or crashes: a  *)
(* single log in which every device's writes appear in the order it made   *)
(* them, with no gap, at most once, and are never rewritten.               *)
(*                                                                         *)
(* An entry is [dev, seq, event, op]: the device identity, the device's    *)
(* own counter, the event it numbers and the op it carries.                *)
(***************************************************************************)
EXTENDS Naturals, Sequences

VARIABLES
  written,  \* the entries devices have authored
  log       \* the entries the fleet shares, in the one order that exists

Logged(d) == {log[i].seq : i \in {j \in DOMAIN log : log[j].dev = d}}

LogInit == written = {} /\ log = <<>>

\* A device authors one more entry; it never authors two with one number.
Author ==
  \E e \in written' \ written :
    /\ written' = written \cup {e}
    /\ \A f \in written : f.dev = e.dev => f.seq < e.seq
    /\ UNCHANGED log

\* The next entry of some device enters the log.
Commit ==
  \E e \in written :
    /\ e.seq \notin Logged(e.dev)
    /\ \A k \in 1 .. e.seq - 1 : k \in Logged(e.dev)
    /\ log' = Append(log, e)
    /\ UNCHANGED written

\* The log's owner authors and commits in one breath.
Own ==
  \E e \in written' \ written :
    /\ written' = written \cup {e}
    /\ \A f \in written : f.dev = e.dev => f.seq < e.seq
    /\ \A k \in 1 .. e.seq - 1 : k \in Logged(e.dev)
    /\ log' = Append(log, e)

LogNext == Author \/ Commit \/ Own

LogSpec == LogInit /\ [][LogNext]_<<written, log>>

=============================================================================
