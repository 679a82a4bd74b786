---------------------------- MODULE MCIoThreads ----------------------------
EXTENDS IoThreads
CONSTANTS c1, c2

OneThread == {1}
TwoThreads == {1, 2}
TwoClients == {c1, c2}

\* Commands that write to the dataset.
Writes == [op : {"set"}]

SomeCommands ==
    [op : {"subscribe", "unsubscribe", "publish", "quit", "list"}] \cup
    [op : {"kill", "close"}, of : {c2}]
=============================================================================
