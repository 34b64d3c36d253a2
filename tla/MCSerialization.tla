-------------------------- MODULE MCSerialization --------------------------
EXTENDS SerializationClaims, TLC

CONSTANTS v1, v2

Command(v, i, b) == [vdev |-> v, id |-> i, type |-> 1, is_blocking |-> b,
                     is_high_priority |-> FALSE, queue_disable |-> FALSE]
HighPriority(c) == [c EXCEPT !.is_high_priority = TRUE]
QueueDisabling(c) == [c EXCEPT !.queue_disable = TRUE]

CancelOf(c, v, p, b, qs) == [cmd |-> c, vdev |-> v, pdev |-> p, type |-> NoType,
                             nonblock |-> b, queues |-> qs]

MCVdevs == {v1, v2}
NodeSymmetry == Permutations(Nodes)

(* Two commands on v1 and one on v2, all plain *)
PlainCmds == {Command(v1, 1, FALSE), Command(v1, 2, FALSE), Command(v2, 1, FALSE)}
(* The same ids, the one on v2 blocking *)
BlockingCmds == {Command(v1, 1, FALSE), Command(v1, 2, FALSE), Command(v2, 1, TRUE)}
(* One command on each vdev, of distinct ids *)
DistinctCmds == {Command(v1, 1, FALSE), Command(v2, 2, TRUE)}
(* The same command asked for twice, plain and blocking, and one of the other vdev *)
TwiceCmds == {Command(v1, 1, FALSE), Command(v1, 1, TRUE), Command(v2, 1, TRUE)}
(* One of each attribute *)
AttributeCmds == {HighPriority(QueueDisabling(Command(v1, 1, FALSE))), Command(v1, 2, FALSE),
                  Command(v2, 1, TRUE)}

(* A purge of the pdev, a cancel of v1's commands and one of a single command *)
CancelAll == {CancelOf(NoCmd, v1, FALSE, FALSE, <<TRUE, FALSE>>),
              CancelOf(Command(v1, 1, FALSE), NoVdev, FALSE, FALSE, <<TRUE, FALSE>>),
              CancelOf(NoCmd, NoVdev, TRUE, FALSE, <<FALSE, TRUE>>)}
(* Of a whole vdev, of one command, of what is not blocking, of the pdev *)
CancelMixed == {CancelOf(NoCmd, v1, FALSE, FALSE, <<TRUE, FALSE>>),
                CancelOf(HighPriority(QueueDisabling(Command(v1, 1, FALSE))), NoVdev, FALSE, FALSE, <<TRUE, FALSE>>),
                CancelOf(NoCmd, v2, FALSE, TRUE, <<TRUE, FALSE>>),
                CancelOf(NoCmd, NoVdev, TRUE, FALSE, <<FALSE, TRUE>>)}
=============================================================================
