----------------------------- MODULE FileTransfer -----------------------------
(***************************************************************************)
(* Files over a DataChannel: FileSender (app/rtc/file_sender.py) streams a *)
(* file, Peer (app/rtc/peer.py) starts a task for every message, and the   *)
(* tasks of FileReceiver (app/rtc/file_receiver.py) write and rename it.   *)
(*                                                                         *)
(* An action is what happens between two awaits, or what a thread of the   *)
(* pool does meanwhile.  A chunk is <<file, number>>; a hash is the        *)
(* sequence it was computed of.  All files have the same name.  ACKs and   *)
(* progress only move progress bars and are left out.                      *)
(***************************************************************************)
EXTENDS Naturals, Sequences, FiniteSets

CONSTANTS
    Files,       \* file_ids
    Chunks,      \* chunks of a file
    High, Low,   \* FILE_BUFFER_HIGH and _LOW, in frames
    MaxSends,    \* bound: calls of send()
    Overlap      \* message tasks the receiver has at a time: FileReceiver
                 \* assumes 1, Peer sets no limit

ASSUME TransferAssumption ==
    /\ Chunks \in Nat \ {0} /\ MaxSends \in Nat /\ Overlap \in Nat \ {0}
    /\ High \in Nat /\ Low \in Nat /\ Low < High

VARIABLES
    open,      \* readyState of the channel
    toR,       \* frames buffered for, or on their way to, the receiver
    toS,       \* FILE_DONE frames on their way to the sender
    sends,     \* calls of send() so far
    sending,   \* where send() of a file stands
    pos,       \* number of its next chunk
    inFlight,  \* _in_flight of the sender
    told,      \* the last completed() of the sender
    task,      \* the receiver's message tasks
    contexts,  \* all _ReceiveContext objects: the chunks that were hashed
    current,   \* _contexts: the context of a file_id, 0: none
    disk,      \* contents of all files that were ever created
    partial,   \* the .partial file of a file_id, 0: none
    final      \* the files saved as `name', `name (1)', ...; 0: none

transferVars == <<open, toR, toS, sends, sending, pos, inFlight, told, task, contexts,
          current, disk, partial, final>>

sender == <<sends, sending, pos, inFlight, told>>
receiver == <<task, contexts, current, disk, partial, final>>

Tasks == 1 .. Overlap
Targets == 1 .. MaxSends
Chunk == Files \X (0 .. Chunks - 1)
Whole(f) == [n \in 1 .. Chunks |-> <<f, n - 1>>]

Free == [step |-> "free"]
Frame ==
    [type : {"META", "END"}, file : Files] \cup
    [type : {"CHUNK"}, file : Files, seq : 0 .. Chunks - 1]
\* The hash of a file that arrives, as what it was computed of so far.
ReceiveContext == Seq(Chunk)

Done == [file : Files, ok : BOOLEAN, match : BOOLEAN]
Task ==
    {Free} \cup
    [step : {"discarding", "creating"}, file : Files] \cup
    [step : {"opening", "writing", "written"}, file : Files,
     seq : 0 .. Chunks - 1, ctx : 1 .. Len(contexts), node : 0 .. Len(disk)] \cup
    [step : {"replacing", "renamed", "unrenamed"}, file : Files,
     match : BOOLEAN, target : Targets]

FilesTypeOK ==
    /\ open \in BOOLEAN
    /\ toR \in Seq(Frame)
    /\ toS \in Seq(Done)
    /\ sends \in 0 .. MaxSends
    /\ sending \in [Files -> {"idle", "streaming", "waiting"}]
    /\ pos \in [Files -> 0 .. Chunks]
    /\ inFlight \in SUBSET Files
    /\ told \in [Files -> {"nothing", "ok", "failed"}]
    /\ task \in [Tasks -> Task]
    /\ contexts \in Seq(ReceiveContext)
    /\ current \in [Files -> 0 .. Len(contexts)]
    /\ disk \in Seq(Seq(Chunk))
    /\ partial \in [Files -> 0 .. Len(disk)]
    /\ final \in [Targets -> 0 .. Len(disk)]

FileInit ==
    /\ open = TRUE
    /\ toR = <<>>
    /\ toS = <<>>
    /\ sends = 0
    /\ sending = [f \in Files |-> "idle"]
    /\ pos = [f \in Files |-> 0]
    /\ inFlight = {}
    /\ told = [f \in Files |-> "nothing"]
    /\ task = [t \in Tasks |-> Free]
    /\ contexts = <<>>
    /\ current = [f \in Files |-> 0]
    /\ disk = <<>>
    /\ partial = [f \in Files |-> 0]
    /\ final = [n \in Targets |-> 0]

-----------------------------------------------------------------------------
(* FileSender. *)

Buffered == Len(toR)

\* _fail: no longer in flight, and completed(False).
Fail(f) ==
    /\ inFlight' = inFlight \ {f}
    /\ told' = [told EXCEPT ![f] = "failed"]
    /\ sending' = [sending EXCEPT ![f] = "idle"]

\* send(), from FILE_META on.  The channel was open when the file was hashed; by
\* now it may be closed.
Send(f) ==
    /\ sending[f] = "idle"
    /\ sends < MaxSends
    /\ sends' = sends + 1
    /\ IF open
       THEN /\ toR' = Append(toR, [type |-> "META", file |-> f])
            /\ inFlight' = inFlight \cup {f}
            /\ sending' = [sending EXCEPT ![f] = "streaming"]
            /\ pos' = [pos EXCEPT ![f] = 0]
            /\ UNCHANGED told
       ELSE Fail(f) /\ UNCHANGED <<toR, pos>>
    /\ UNCHANGED <<open, toS, receiver>>

\* channel.send of a chunk, which raises on a closed channel.  If the file is not
\* in flight any more the KeyError after it ends the stream.
PutChunk(f) ==
    /\ IF open
       THEN toR' = Append(toR, [type |-> "CHUNK", file |-> f, seq |-> pos[f]])
       ELSE UNCHANGED toR
    /\ IF open /\ f \in inFlight
       THEN /\ pos' = [pos EXCEPT ![f] = @ + 1]
            /\ sending' = [sending EXCEPT ![f] = "streaming"]
            /\ UNCHANGED <<inFlight, told>>
       ELSE Fail(f) /\ UNCHANGED pos
    /\ UNCHANGED <<open, toS, sends, receiver>>

NextChunk(f) ==
    /\ sending[f] = "streaming"
    /\ pos[f] < Chunks
    /\ Buffered < High
    /\ PutChunk(f)

\* _wait_for_buffer_low.
Wait(f) ==
    /\ sending[f] = "streaming"
    /\ pos[f] < Chunks
    /\ Buffered >= High
    /\ sending' = [sending EXCEPT ![f] = "waiting"]
    /\ UNCHANGED <<open, toR, toS, sends, pos, inFlight, told, receiver>>

Resume(f) ==
    /\ sending[f] = "waiting"
    /\ Buffered <= Low
    /\ PutChunk(f)

SendEnd(f) ==
    /\ sending[f] = "streaming"
    /\ pos[f] = Chunks
    /\ IF open
       THEN /\ toR' = Append(toR, [type |-> "END", file |-> f])
            /\ sending' = [sending EXCEPT ![f] = "idle"]
            /\ UNCHANGED <<inFlight, told>>
       ELSE Fail(f) /\ UNCHANGED toR
    /\ UNCHANGED <<open, toS, sends, pos, receiver>>

Cancel(f) ==
    /\ sending[f] # "idle"
    /\ Fail(f)
    /\ UNCHANGED <<open, toR, toS, sends, pos, receiver>>

\* on_done, which does not care whether the file is in flight.
RecvDone ==
    /\ open
    /\ toS # <<>>
    /\ LET m == Head(toS)
       IN  /\ inFlight' = inFlight \ {m.file}
           /\ told' = [told EXCEPT ![m.file] =
                          IF m.ok /\ m.match THEN "ok" ELSE "failed"]
    /\ toS' = Tail(toS)
    /\ UNCHANGED <<open, toR, sends, sending, pos, receiver>>

\* The channel closes; what is under way is lost, what is buffered stays so.
Close ==
    /\ open
    /\ open' = FALSE
    /\ UNCHANGED <<toR, toS, sender, receiver>>

-----------------------------------------------------------------------------
(* FileReceiver. *)

Ends(t) == task' = [task EXCEPT ![t] = Free]
Goes(t, rec) == task' = [task EXCEPT ![t] = rec]

\* _send_done, which a closed channel drops.
Reply(f, ok, match) ==
    toS' = IF open
           THEN Append(toS, [file |-> f, ok |-> ok, match |-> match])
           ELSE toS

Forget(f) == current' = [current EXCEPT ![f] = 0]

\* The first name that does not exist.
FreeTarget ==
    CHOOSE n \in Targets : final[n] = 0 /\ \A k \in 1 .. n - 1 : final[k] # 0

\* Mutant of TakeMeta: a context there is goes on.
TakeMetaOnce(t, f) ==
    /\ IF current[f] # 0 THEN Ends(t)
       ELSE Goes(t, [step |-> "creating", file |-> f])
    /\ UNCHANGED <<toS, contexts, current, disk, partial, final>>

\* _handle_file_meta: a context there is, is discarded first.
TakeMeta(t, f) ==
    /\ IF current[f] # 0
       THEN Goes(t, [step |-> "discarding", file |-> f])
       ELSE Goes(t, [step |-> "creating", file |-> f])
    /\ Forget(f)
    /\ UNCHANGED <<toS, contexts, disk, partial, final>>

\* on_binary_message: a chunk without a context is dropped.
TakeChunk(t, f, n) ==
    /\ IF current[f] # 0
       THEN Goes(t, [step |-> "opening", file |-> f, seq |-> n,
                     ctx |-> current[f], node |-> 0])
       ELSE Ends(t)
    /\ UNCHANGED <<toS, contexts, current, disk, partial, final>>

\* _handle_file_end up to the rename: what has been hashed by now is compared,
\* and a name is chosen.
TakeEnd(t, f) ==
    /\ IF current[f] # 0
       THEN /\ Goes(t, [step |-> "replacing", file |-> f,
                        match |-> contexts[current[f]] = Whole(f),
                        target |-> FreeTarget])
            /\ UNCHANGED toS
       ELSE Ends(t) /\ Reply(f, FALSE, FALSE)
    /\ UNCHANGED <<contexts, current, disk, partial, final>>

OnTextMessage(t, m) ==
    \/ m.type = "META" /\ TakeMeta(t, m.file)
    \/ m.type = "END" /\ TakeEnd(t, m.file)

\* Peer's _on_message starts a task, which runs to its first await.
Deliver(t) ==
    /\ open
    /\ toR # <<>>
    /\ task[t] = Free
    /\ \A u \in 1 .. t - 1 : task[u] # Free
    /\ toR' = Tail(toR)
    /\ LET m == Head(toR)
       IN  OnTextMessage(t, m) \/ (m.type = "CHUNK" /\ TakeChunk(t, m.file, m.seq))
    /\ UNCHANGED <<open, sender>>

\* _discard_context unlinks the .partial file, or fails to, which is only logged.
Discard(t) ==
    /\ task[t].step = "discarding"
    /\ partial' \in {partial, [partial EXCEPT ![task[t].file] = 0]}
    /\ Goes(t, [step |-> "creating", file |-> task[t].file])
    /\ UNCHANGED <<open, toR, toS, sender, contexts, current, disk, final>>

\* The empty .partial file exists, and the context is filed.
Create(t) ==
    /\ task[t].step = "creating"
    /\ LET f == task[t].file
       IN  /\ IF partial[f] = 0
              THEN /\ disk' = Append(disk, <<>>)
                   /\ partial' = [partial EXCEPT ![f] = Len(disk')]
              ELSE /\ disk' = [disk EXCEPT ![partial[f]] = <<>>]
                   /\ UNCHANGED partial
           /\ contexts' = Append(contexts, <<>>)
           /\ current' = [current EXCEPT ![f] = Len(contexts')]
    /\ Ends(t)
    /\ UNCHANGED <<open, toR, toS, sender, final>>

CreateFails(t) ==
    /\ task[t].step = "creating"
    /\ Ends(t)
    /\ UNCHANGED <<open, toR, toS, sender, contexts, current, disk, partial,
                   final>>

\* A chunk's task opens the file of its name to append to it, ...
Open(t) ==
    /\ task[t].step = "opening"
    /\ LET f == task[t].file
       IN  /\ IF partial[f] = 0
              THEN /\ disk' = Append(disk, <<>>)
                   /\ partial' = [partial EXCEPT ![f] = Len(disk')]
              ELSE UNCHANGED <<disk, partial>>
           /\ Goes(t, [task[t] EXCEPT !.step = "writing", !.node = partial'[f]])
    /\ UNCHANGED <<open, toR, toS, sender, contexts, current, final>>

\* ... writes to whatever has become of it, ...
Write(t) ==
    /\ task[t].step = "writing"
    /\ disk' = [disk EXCEPT ![task[t].node] =
                   Append(@, <<task[t].file, task[t].seq>>)]
    /\ Goes(t, [task[t] EXCEPT !.step = "written"])
    /\ UNCHANGED <<open, toR, toS, sender, contexts, current, partial, final>>

\* ... and adds the chunk to the hash of its context.
Hash(t) ==
    /\ task[t].step = "written"
    /\ contexts' = [contexts EXCEPT ![task[t].ctx] =
                       Append(@, <<task[t].file, task[t].seq>>)]
    /\ Ends(t)
    /\ UNCHANGED <<open, toR, toS, sender, current, disk, partial, final>>

\* _fail: FILE_DONE, and the context that is filed now goes with its file.
WriteFails(t) ==
    /\ task[t].step \in {"opening", "writing"}
    /\ LET f == task[t].file
       IN  /\ Reply(f, FALSE, FALSE)
           /\ Forget(f)
           /\ partial' = IF current[f] # 0
                         THEN [partial EXCEPT ![f] = 0] ELSE partial
    /\ Ends(t)
    /\ UNCHANGED <<open, toR, sender, contexts, disk, final>>

\* os.replace of the .partial file, over whatever has the name by now.
Rename(t) ==
    /\ task[t].step = "replacing"
    /\ partial[task[t].file] # 0
    /\ final' = [final EXCEPT ![task[t].target] = partial[task[t].file]]
    /\ partial' = [partial EXCEPT ![task[t].file] = 0]
    /\ Goes(t, [task[t] EXCEPT !.step = "renamed"])
    /\ UNCHANGED <<open, toR, toS, sender, contexts, current, disk>>

\* Mutant of RenameFails: ok is set all the same.
RenameFailsUnnoticed(t) ==
    /\ task[t].step = "replacing"
    /\ Goes(t, [task[t] EXCEPT !.step = "renamed"])
    /\ UNCHANGED <<open, toR, toS, sender, contexts, current, disk, partial,
                   final>>

RenameFails(t) ==
    /\ task[t].step = "replacing"
    /\ Goes(t, [task[t] EXCEPT !.step = "unrenamed"])
    /\ UNCHANGED <<open, toR, toS, sender, contexts, current, disk, partial,
                   final>>

\* FILE_DONE, and the context is gone.
Finish(t) ==
    /\ task[t].step \in {"renamed", "unrenamed"}
    /\ Reply(task[t].file, task[t].step = "renamed", task[t].match)
    /\ Forget(task[t].file)
    /\ Ends(t)
    /\ UNCHANGED <<open, toR, sender, contexts, disk, partial, final>>

-----------------------------------------------------------------------------
Sending(f) ==
    \/ NextChunk(f)
    \/ Wait(f)
    \/ Resume(f)
    \/ SendEnd(f)

\* A thread of the pool ends with or without success.
Working(t) ==
    \/ Discard(t)
    \/ Create(t)
    \/ CreateFails(t)
    \/ Open(t)
    \/ Write(t)
    \/ Hash(t)
    \/ WriteFails(t)
    \/ Rename(t)
    \/ RenameFails(t)
    \/ Finish(t)

FileNext ==
    \/ \E f \in Files : Send(f) \/ Sending(f) \/ Cancel(f)
    \/ RecvDone
    \/ Close
    \/ \E t \in Tasks : Deliver(t) \/ Working(t)

FileSpec == FileInit /\ [][FileNext]_transferVars

-----------------------------------------------------------------------------
(* Properties. *)

Saved == {f \in Files : \E n \in Targets : final[n] # 0 /\ disk[final[n]] = Whole(f)}

\* The receiver keeps what it saved, and the sender hears of success only when
\* the receiver has the whole file, whatever was cancelled, sent again or failed
\* before (FileReceiver, FileSender.on_done).
Promise == INSTANCE Delivery WITH saved <- Saved, told <- told
KeepsPromise == Promise!Spec

\* No torn file gets its final name: with frames in order and one task at a time
\* a FILE_END that finds a context finds all chunks in its file.
SavedIsWhole ==
    \A n \in Targets : final[n] # 0 => \E f \in Files : disk[final[n]] = Whole(f)

=============================================================================
