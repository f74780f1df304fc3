------------------------------ MODULE GroupCall ------------------------------
(***************************************************************************)
(* The desktop's side of an SFU group call: SfuCallClient (net), which     *)
(* subscribes to the producers the server announces, SfuCallMixin, which   *)
(* wires it to the signaling client, and GroupCallDialog with one tile and *)
(* one VideoRenderer per producer.  Everything runs on one event loop; an  *)
(* action is the code between two awaits.  The server answers a            *)
(* subscription some time, with a video and an audio track.                *)
(***************************************************************************)
EXTENDS Naturals, Sequences, FiniteSets, SequencesExt

CONSTANTS Producers,    \* peers of the room, this one among them
          Me,
          Lists,        \* producer lists the server may announce
          MaxCalls,     \* calls started (bound)
          MaxTasks,     \* SFU_PRODUCERS frames (bound)
          MaxLinks      \* downstream connections (bound)

ASSUME GroupAssumption ==
    /\ Me \in Producers /\ Lists \subseteq Seq(Producers)
    /\ {MaxCalls, MaxTasks, MaxLinks} \subseteq Nat

VARIABLES
    calls,      \* SfuCallClients made; the last is _sfu_call_client
    window,     \* is the window of _group_call_dialog still open
    subs,       \* _subscribe_pcs of each client: number of a link, 0 for no entry
    links,      \* the RTCPeerConnections made: [call, of, state]
    tasks,      \* handle_producers coroutines: [call, left, link]
    answers,    \* producers whose SFU_ANSWER is on its way
    closing,    \* per client: keys close() has not visited, its first size, or its end
    tiles,      \* _tiles of the open dialog: a stream or NoStream
    renderers   \* VideoRenderers started and not stopped: [dialog, link, kind]

callVars == <<calls, closing>>
linkVars == <<subs, links, tasks, answers>>
viewVars == <<window, tiles, renderers>>
groupVars == <<callVars, linkVars, viewVars>>

Calls == 1..MaxCalls
NoStream == [dialog |-> 0, link |-> 0, kind |-> "none"]
Idle == [state |-> "open", left |-> {}, size |-> 0]

Link(i, s) == [links EXCEPT ![i].state = s]
Subscribed(k) == {p \in Producers : subs[k][p] # 0}

-----------------------------------------------------------------------------
(* The dialog.                                                             *)

\* Mutant of RemoveProducer: the tile is replaced, its renderer is left running.
RemoveTileOnly(p, running) == running

\* remove_producer: the tile goes and its renderer stops.
RemoveProducer(p, running) == running \ {tiles[p]}

\* add_remote_track: an earlier tile of the producer is removed first.
AddRemoteTrack(p, s) ==
    /\ tiles' = [tiles EXCEPT ![p] = s]
    /\ renderers' = RemoveProducer(p, renderers) \cup {s}

\* close_all.
CloseAll ==
    /\ tiles' = [p \in Producers |-> NoStream]
    /\ renderers' = renderers \ Range(tiles)

\* closeEvent: the client behind the window goes on.
CloseWindow ==
    /\ window
    /\ window' = FALSE
    /\ CloseAll
    /\ UNCHANGED <<callVars, linkVars>>

-----------------------------------------------------------------------------
(* Starting a call.                                                        *)

\* end_group_call schedules close() of the client and empties its dialog.
EndGroupCall ==
    /\ closing' = IF calls = 0 THEN closing
                  ELSE [closing EXCEPT ![calls].state = "publisher"]
    /\ CloseAll

\* start_group_call, which ends a call that still has a client or a dialog.
StartGroupCall ==
    /\ calls < MaxCalls
    /\ EndGroupCall
    /\ calls' = calls + 1
    /\ window' = TRUE
    /\ UNCHANGED linkVars

\* close() after the publisher's connection: the first step of the loop over
\* the subscriptions.
CloseBegins(k) ==
    /\ closing[k].state = "publisher"
    /\ closing' = [closing EXCEPT ![k] =
                     [state |-> "closing", left |-> Subscribed(k), size |-> Cardinality(Subscribed(k))]]
    /\ UNCHANGED <<calls, linkVars, viewVars>>

\* Each connection is closed at an await.  A dictionary that has grown or
\* shrunk meanwhile ends the loop with an exception; at its end it is cleared.
CloseOne(k) ==
    /\ closing[k].state = "closing" /\ closing[k].left # {}
    /\ Cardinality(Subscribed(k)) = closing[k].size
    /\ \E p \in closing[k].left :
         /\ closing' = [closing EXCEPT ![k].left = @ \ {p}]
         /\ links' = IF subs[k][p] = 0 THEN links ELSE Link(subs[k][p], "closed")
    /\ UNCHANGED <<calls, subs, tasks, answers, viewVars>>

CloseFails(k) ==
    /\ closing[k].state = "closing" /\ Cardinality(Subscribed(k)) # closing[k].size
    /\ closing' = [closing EXCEPT ![k].state = "failed"]
    /\ UNCHANGED <<calls, linkVars, viewVars>>

CloseEnds(k) ==
    /\ closing[k].state = "closing" /\ closing[k].left = {}
    /\ Cardinality(Subscribed(k)) = closing[k].size
    /\ closing' = [closing EXCEPT ![k].state = "closed"]
    /\ subs' = [subs EXCEPT ![k] = [p \in Producers |-> 0]]
    /\ UNCHANGED <<calls, links, tasks, answers, viewVars>>

-----------------------------------------------------------------------------
(* Subscribing.                                                            *)

\* What is left of a list from the first producer that handle_producers and
\* subscribe() do not pass over.
Wanted(k, list) == list # <<>> /\ Head(list) # Me /\ subs[k][Head(list)] = 0

FromFirstWanted(k, list) ==
    LET starts == {i \in 1..Len(list) : Wanted(k, SubSeq(list, i, Len(list)))}
    IN  IF starts = {} THEN <<>>
        ELSE SubSeq(list, CHOOSE i \in starts : \A j \in starts : i <= j, Len(list))

\* The task t goes on with a list up to the next await: a new connection waits
\* for its offer, or the task is over.
RunsOn(t, list) ==
    LET rest == FromFirstWanted(t.call, list)
    IN  /\ tasks' = (tasks \ {t}) \cup
                      IF rest = <<>> THEN {} ELSE {[t EXCEPT !.left = rest, !.link = Len(links) + 1]}
        /\ rest # <<>> => Len(links) < MaxLinks
        /\ links' = IF rest = <<>> THEN links
                    ELSE Append(links, [call |-> t.call, of |-> Head(rest), state |-> "offering"])

\* SFU_PRODUCERS: a task of the present client, up to its first await.
HandleProducers(list) ==
    /\ calls # 0
    /\ Cardinality(tasks) < MaxTasks
    /\ RunsOn([call |-> calls, left |-> list, link |-> 0], list)
    /\ UNCHANGED <<callVars, subs, answers, viewVars>>

\* subscribe() after its offer: the connection is registered and SFU_SUBSCRIBE
\* handed to the socket.
Offered(t) ==
    /\ links[t.link].state = "offering"
    /\ links' = Link(t.link, "sending")
    /\ subs' = [subs EXCEPT ![t.call][Head(t.left)] = t.link]
    /\ UNCHANGED <<callVars, tasks, answers, viewVars>>

\* The send is over; the loop of handle_producers goes on.
Sent(t) ==
    /\ links[t.link].state # "offering"
    /\ Head(t.left) \notin answers
    /\ answers' = answers \cup {Head(t.left)}
    /\ RunsOn(t, Tail(t.left))
    /\ UNCHANGED <<callVars, subs, viewVars>>

\* The send fails: whatever is registered for the producer is popped, the
\* connection is closed, and the exception ends the task.
SendFails(t) ==
    /\ links[t.link].state # "offering"
    /\ subs' = [subs EXCEPT ![t.call][Head(t.left)] = 0]
    /\ links' = Link(t.link, "closed")
    /\ tasks' = tasks \ {t}
    /\ UNCHANGED <<callVars, answers, viewVars>>

\* SFU_ANSWER goes to the connection the present client has for the producer.
HandleSfuAnswer(p) ==
    /\ p \in answers
    /\ answers' = answers \ {p}
    /\ LET i == IF calls = 0 THEN 0 ELSE subs[calls][p]
       IN  links' = IF i # 0 /\ links[i].state = "sending" THEN Link(i, "answered") ELSE links
    /\ UNCHANGED <<callVars, subs, tasks, viewVars>>

\* setRemoteDescription hands over the video track, then the audio track, to
\* the dialog that is there by then.
Tracks == <<"video", "audio">>

VideoRenderer(i, kind) == [dialog |-> calls, link |-> i, kind |-> kind]

TrackArrives(i) ==
    LET next == IF links[i].state = "answered" THEN 1 ELSE 2
        s == VideoRenderer(i, Tracks[next])
    IN  /\ links[i].state \in {"answered", "video"}
        /\ links' = Link(i, Tracks[next])
        /\ AddRemoteTrack(links[i].of, s)
        /\ UNCHANGED <<callVars, window, subs, tasks, answers>>

-----------------------------------------------------------------------------

GroupInit ==
    /\ calls = 0 /\ window = FALSE
    /\ subs = [k \in Calls |-> [p \in Producers |-> 0]]
    /\ links = <<>> /\ tasks = {} /\ answers = {}
    /\ closing = [k \in Calls |-> Idle]
    /\ tiles = [p \in Producers |-> NoStream]
    /\ renderers = {}

GroupNext ==
    \/ StartGroupCall \/ CloseWindow
    \/ \E k \in Calls : CloseBegins(k) \/ CloseOne(k) \/ CloseFails(k) \/ CloseEnds(k)
    \/ \E list \in Lists : HandleProducers(list)
    \/ \E t \in tasks : Offered(t) \/ Sent(t) \/ SendFails(t)
    \/ \E p \in Producers : HandleSfuAnswer(p)
    \/ \E i \in DOMAIN links : TrackArrives(i)

GroupSpec == GroupInit /\ [][GroupNext]_groupVars

-----------------------------------------------------------------------------
(* Properties.                                                             *)

GroupTypeOK ==
    /\ calls \in 0..MaxCalls /\ window \in BOOLEAN
    /\ subs \in [Calls -> [Producers -> 0..Len(links)]]
    /\ Len(links) <= MaxLinks
    /\ \A t \in tasks : t.call \in Calls /\ t.link \in DOMAIN links
    /\ answers \subseteq Producers
    /\ \A p \in Producers : tiles[p] = NoStream \/ tiles[p].link \in DOMAIN links

(* No renderer reads a track that nobody can see: those that run are those   *)
(* of the tiles, one for each, whatever comes late from connections of an    *)
(* earlier call or twice for one producer (add_remote_track, close_all).     *)
RenderersAreTiles == renderers = Range(tiles) \ {NoStream}

(* "각 producer 의 forward 미디어를 타일 그리드로 표시" and "producer 1명당 ... VideoRenderer *)
(* (aiortc track → QImage 30fps) 1개" (group_call_dialog.py:8): a tile that was *)
(* given both tracks of a subscription shows the picture.                    *)
PictureIsShown ==
    \A p \in Producers : tiles[p] # NoStream /\ links[tiles[p].link].state = "audio"
                            => tiles[p].kind = "video"

=============================================================================
