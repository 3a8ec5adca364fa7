----------------------------- MODULE MCWaitSet -----------------------------
(* WaitSet.tla for TLC: proc 1, and machine 2, which another machine holds.  *)
EXTENDS WaitSet

ThreeBytes == <<1, 2, 3>>

Op(name, count, of) == [do |-> name, count |-> count, of |-> of]
recvw == Op("receive_wait", 0, <<>>)
readw(n) == Op("read_wait", n, <<>>)
read(n) == Op("read_bytes", n, <<>>)
pick(a, b) == Op("choose", 0, <<a, b>>)
anyOf(a, b) == Op("any", 0, <<a, b>>)
waitOn(t) == Op("wait", 0, <<t>>)
drop(t) == Op("cancel", 0, <<t>>)
send1 == Op("send", 0, <<1>>)
close1 == Op("close", 0, <<1>>)
stop == Op("stop", 0, <<>>)

Pair(p, h) == [m \in {1, 2} |-> IF m = 1 THEN p ELSE h]

Cases == {
    \* A read races with a message, and with the end of messages.
    Pair(<<readw(1), recvw, pick(1, 2), waitOn(3)>>, <<send1>>),
    Pair(<<readw(1), recvw, pick(1, 2), waitOn(3)>>, <<close1, read(2)>>),
    Pair(<<readw(1), readw(1), pick(2, 1), recvw, anyOf(4, 3)>>, <<send1>>),
    \* Two reads race, and a third follows.
    Pair(<<readw(1), readw(2), anyOf(1, 2), read(2)>>, <<>>),
    Pair(<<readw(1), waitOn(1)>>, <<read(1)>>),
    \* Reads are cancelled and made again, by the machine or by another.
    Pair(<<readw(2), drop(1), readw(1), waitOn(2), read(1)>>, <<>>),
    Pair(<<readw(2), drop(1)>>, <<read(1)>>),
    Pair(<<readw(1), readw(1), pick(1, 2), drop(3), read(2)>>, <<>>),
    \* A machine ends while it has reads prepared.
    Pair(<<readw(2), stop>>, <<read(2)>>),
    Pair(<<readw(2), stop>>, <<readw(1), waitOn(1)>>),
    Pair(<<>>, <<readw(1), readw(1), pick(2, 1), stop>>),
    \* A machine that has a read prepared waits for another one.
    Pair(<<readw(1), read(1)>>, <<>>),
    Pair(<<>>, <<readw(1), read(1)>>),
    \* The service is full: a wait that is ready at once, and a refused read.
    Pair(<<readw(1), readw(1), readw(1), waitOn(3), read(1)>>, <<>>),
    \* Tokens used twice, the operations only a proc has, and full tables.
    Pair(<<readw(0), readw(1), pick(1, 2), drop(1)>>, <<recvw>>),
    Pair(<<readw(1), readw(1), pick(1, 1)>>, <<>>),
    Pair(<<recvw, anyOf(1, 1)>>, <<readw(0), waitOn(1), waitOn(1)>>),
    Pair(<<recvw, recvw, recvw, recvw, recvw, readw(1)>>, <<>>),
    Pair(<<recvw, recvw, recvw, readw(1), readw(1), readw(1)>>, <<>>)}
============================================================================
