---------------------------- MODULE MCMemSystem ----------------------------
\* Small instances of MemSystem: two stacks of two channels, three host requests,
\* queues of one or two entries.
EXTENDS MemSystem

At(address, qos) == [explicit |-> FALSE, stack |-> 0, address |-> address, qos |-> qos]
On(stack, address) == [explicit |-> TRUE, stack |-> stack, address |-> address, qos |-> 0]

Ask(tag, write, txns) == [tag |-> tag, write |-> write, txns |-> txns]

\* Two lines of both stacks, written and read in both orders; a tag used again; and
\* a line named by its stack.
Spread == <<Ask(1, TRUE, <<At(0, 0), At(1, 0)>>), Ask(2, FALSE, <<At(1, 0), At(0, 0)>>),
            Ask(1, TRUE, <<On(1, 0)>>), Ask(2, FALSE, <<At(1, 0), At(2, 0)>>)>>
\* One stack, classes of service against the order of the requests.
Classes == <<Ask(1, TRUE, <<At(0, 0), At(0, 1)>>), Ask(2, FALSE, <<At(0, 1), At(2, 0)>>),
             Ask(1, FALSE, <<At(0, 1)>>), Ask(3, TRUE, <<At(0, 0), At(2, 1)>>)>>
\* Both channels of a stack, and three transactions of a request.
Channeled == <<Ask(1, TRUE, <<At(0, 0), At(2, 0), At(1, 0)>>), Ask(2, TRUE, <<At(2, 0), At(0, 0)>>),
               Ask(1, FALSE, <<At(0, 0), At(3, 0)>>)>>

MCConfigurations ==
    [policy : {"fcfs", "strict"}, mode : {"host", "transaction", "both"},
     kind : {"interleaved", "blocked"}, program : {Spread, Classes, Channeled}]
=============================================================================
