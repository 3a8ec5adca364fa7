---------------------------- MODULE InputService ----------------------------
(* Standard input of the command-line host: the thread that reads the stream *)
(* (start_input_reader), the input worker that serves reads from its buffer  *)
(* (input_worker), and the channels between them, the caller and the         *)
(* completion queue.  A byte is its position in the stream.                  *)
(*                                                                           *)
(* A read that is a wait source keeps a copy of the bytes it answered with   *)
(* in `retained`, until the caller commits the wait (the bytes are used) or  *)
(* cancels it (they go back to the front of the buffer).  WaitSet.tla is the *)
(* caller.  Left out: the file and output workers, and the shutdown of the   *)
(* service, which happens after the last call.                               *)
EXTENDS Integers, Sequences, TLC, FiniteSetsExt

CONSTANTS
    Stream,             \* the bytes of standard input, a sequence
    INPUT_CHUNK_BYTES,  \* the most bytes of one read of the stream
    INPUT_CHUNKS,       \* the capacity of the channel from the reader
    MAX_INPUT_BUFFER,   \* the buffer takes no chunk that could pass this
    MAX_PENDING_IO      \* the most requests in service

ASSUME InputAssumption ==
    /\ {INPUT_CHUNK_BYTES, INPUT_CHUNKS, MAX_INPUT_BUFFER, MAX_PENDING_IO} \subseteq Nat \ {0}
    /\ INPUT_CHUNK_BYTES <= MAX_INPUT_BUFFER
    /\ Stream \in Seq(Nat)
    /\ \A i, j \in DOMAIN Stream : i < j => Stream[i] < Stream[j]

VARIABLES
    unread,         \* bytes the reader has not read
    reader,         \* "none", "reading" or "ended"
    data,           \* the channel from the reader: chunks, then "eof" or "failed"
    commands,       \* the channel from the caller
    pending,        \* reads not answered yet, oldest first
    retained,       \* wait token -> bytes of its answer
    buffer,         \* bytes received and not given out
    source,         \* what the worker knows of the stream: "open", "eof" or "failed"
    phase,          \* where the worker is in its loop
    pending_count,  \* requests in service, shared with the caller
    ready,          \* the queue of completions to the host
    call            \* the caller's commit or cancel, and its answer

inputVars == <<unread, reader, data, commands, pending, retained, buffer, source, phase,
               pending_count, ready, call>>

NoCall == [token |-> 0, answer |-> "none"]
Request(t, n, w) == [do |-> "request", token |-> t, count |-> n, wait_source |-> w]
Commit(t) == [do |-> "commit", token |-> t]
Cancel(t) == [do |-> "cancel", token |-> t]

InputInit ==
    /\ unread = Stream
    /\ reader = "none"
    /\ data = <<>>
    /\ commands = <<>>
    /\ pending = <<>>
    /\ retained = <<>>
    /\ buffer = <<>>
    /\ source = "open"
    /\ phase = "commands"
    /\ pending_count = 0
    /\ ready = <<>>
    /\ call = NoCall

----------------------------------------------------------------------------
(* The caller's side. *)

(* reserve refuses the request when the service is full; the caller then    *)
(* completes it with an error.                                              *)
Full == pending_count >= MAX_PENDING_IO

submit_stream(t, n, w) ==
    /\ ~Full
    /\ pending_count' = pending_count + 1
    /\ commands' = Append(commands, Request(t, n, w))
    /\ UNCHANGED <<unread, reader, data, pending, retained, buffer, source, phase, ready, call>>

(* commit_wait and cancel_wait send one command and block on its answer. *)
Ask(c) ==
    /\ commands' = Append(commands, c)
    /\ call' = [token |-> c.token, answer |-> "awaited"]
    /\ UNCHANGED <<unread, reader, data, pending, retained, buffer, source, phase,
                   pending_count, ready>>

----------------------------------------------------------------------------
(* The thread that reads the stream.  A read returns some of the bytes, or  *)
(* none at the end of the stream, or fails.                                 *)
ReaderReads ==
    /\ reader = "reading"
    /\ Len(data) < INPUT_CHUNKS
    /\ \/ \E n \in 1..INPUT_CHUNK_BYTES :
            /\ n <= Len(unread)
            /\ data' = Append(data, [kind |-> "bytes", bytes |-> SubSeq(unread, 1, n)])
            /\ unread' = SubSeq(unread, n + 1, Len(unread))
            /\ UNCHANGED reader
       \/ \E kind \in {"eof", "failed"} :
            /\ kind = "eof" => unread = <<>>
            /\ data' = Append(data, [kind |-> kind, bytes |-> <<>>])
            /\ reader' = "ended"
            /\ UNCHANGED unread
    /\ UNCHANGED <<commands, pending, retained, buffer, source, phase, pending_count, ready, call>>

----------------------------------------------------------------------------
(* The worker. *)

(* The answer reaches the caller unless it stopped waiting for it. *)
Reply(t, answer) ==
    call' = IF call.token = t THEN [call EXCEPT !.answer = answer] ELSE call

Without(s, i) == SubSeq(s, 1, i - 1) \o SubSeq(s, i + 1, Len(s))

Drop(f, t) == [u \in DOMAIN f \ {t} |-> f[u]]

Insert(f, t, v) == [u \in DOMAIN f \cup {t} |-> IF u = t THEN v ELSE f[u]]

(* The buffer after a cancelled read gave its bytes back, first byte first. *)
Restored_Lost(t) == buffer

Restored_AtBack(t) == buffer \o retained[t]

Restored(t) == retained[t] \o buffer

TakesRequest(c) ==
    /\ c.do = "request"
    /\ pending' = Append(pending, [token |-> c.token, count |-> c.count,
                                   wait_source |-> c.wait_source])
    /\ UNCHANGED <<retained, buffer, pending_count, call>>

CommitsRead_LooksAfter(c) ==
    /\ c.do = "commit"
    /\ retained' = Drop(retained, c.token)
    /\ Reply(c.token, IF c.token \in DOMAIN retained' THEN "found" ELSE "missing")
    /\ UNCHANGED <<pending, buffer, pending_count>>

CommitsRead(c) ==
    /\ c.do = "commit"
    /\ retained' = Drop(retained, c.token)
    /\ Reply(c.token, IF c.token \in DOMAIN retained THEN "found" ELSE "missing")
    /\ UNCHANGED <<pending, buffer, pending_count>>

(* A cancelled read is still pending, or answered and retained. *)
CancelsPending_Leaks(c) ==
    /\ c.do = "cancel"
    /\ \E i \in DOMAIN pending :
         /\ pending[i].token = c.token
         /\ pending' = Without(pending, i)
    /\ Reply(c.token, "found")
    /\ UNCHANGED <<retained, buffer, pending_count>>

CancelsPending(c) ==
    /\ c.do = "cancel"
    /\ \E i \in DOMAIN pending :
         /\ pending[i].token = c.token
         /\ pending' = Without(pending, i)
    /\ pending_count' = pending_count - 1
    /\ Reply(c.token, "found")
    /\ UNCHANGED <<retained, buffer>>

CancelsAnswered(c) ==
    /\ c.do = "cancel"
    /\ \A i \in DOMAIN pending : pending[i].token # c.token
    /\ buffer' = IF c.token \in DOMAIN retained THEN Restored(c.token) ELSE buffer
    /\ retained' = Drop(retained, c.token)
    /\ Reply(c.token, IF c.token \in DOMAIN retained THEN "found" ELSE "missing")
    /\ UNCHANGED <<pending, pending_count>>

handle_input_command(c) ==
    TakesRequest(c) \/ CommitsRead(c) \/ CancelsPending(c) \/ CancelsAnswered(c)

(* The worker handles every command it finds, and starts the reader with    *)
(* the first request it holds.                                              *)
WorkerCommand ==
    /\ phase = "commands"
    /\ commands # <<>>
    /\ handle_input_command(Head(commands))
    /\ commands' = Tail(commands)
    /\ reader' = IF reader = "none" /\ pending' # <<>> THEN "reading" ELSE reader
    /\ UNCHANGED <<unread, data, source, phase, ready>>

(* It then takes chunks while the buffer has room for a whole one. *)
HasRoom == Len(buffer) <= MAX_INPUT_BUFFER - INPUT_CHUNK_BYTES

WorkerData ==
    /\ phase = "data"
    /\ HasRoom
    /\ data # <<>>
    /\ buffer' = buffer \o Head(data).bytes
    /\ source' = IF Head(data).kind = "bytes" THEN source ELSE Head(data).kind
    /\ data' = Tail(data)
    /\ UNCHANGED <<unread, reader, commands, pending, retained, phase, pending_count, ready, call>>

(* prepare_input_reply: after a failure of the stream every read is an      *)
(* error without bytes; a read of some bytes waits for the first, or the    *)
(* end of the stream.                                                       *)
Answerable(r) == source = "failed" \/ r.count = 0 \/ buffer # <<>> \/ source = "eof"

Consumed(r) ==
    IF source = "failed" \/ r.count = 0 THEN <<>>
    ELSE SubSeq(buffer, 1, IF r.count < Len(buffer) THEN r.count ELSE Len(buffer))

WorkerAnswers ==
    /\ phase = "answer"
    /\ pending # <<>>
    /\ LET r == Head(pending)
       IN /\ Answerable(r)
          /\ buffer' = SubSeq(buffer, Len(Consumed(r)) + 1, Len(buffer))
          /\ retained' = IF r.wait_source THEN Insert(retained, r.token, Consumed(r)) ELSE retained
          /\ ready' = Append(ready, [token |-> r.token, bytes |-> Consumed(r)])
    /\ pending' = Tail(pending)
    /\ phase' = "release"
    /\ UNCHANGED <<unread, reader, data, commands, source, pending_count, call>>

WorkerReleases ==
    /\ phase = "release"
    /\ pending_count' = pending_count - 1
    /\ phase' = "answer"
    /\ UNCHANGED <<unread, reader, data, commands, pending, retained, buffer, source, ready, call>>

(* Each part of the loop ends when it finds nothing more to do. *)
WorkerMovesOn ==
    /\ \/ phase = "commands" /\ commands = <<>> /\ phase' = "data"
       \/ phase = "data" /\ (data = <<>> \/ ~HasRoom) /\ phase' = "answer"
       \/ /\ phase = "answer"
          /\ pending # <<>> => ~Answerable(Head(pending))
          /\ phase' = "commands"
    /\ UNCHANGED <<unread, reader, data, commands, pending, retained, buffer, source,
                   pending_count, ready, call>>

input_worker == WorkerCommand \/ WorkerData \/ WorkerAnswers \/ WorkerReleases \/ WorkerMovesOn
=============================================================================
