---------------------------- MODULE ChatSessions ----------------------------
(***************************************************************************)
(* One chat session.  The agent remembers it in checkpoints (a row per     *)
(* step of its graph, and the message list of each version in a blob of    *)
(* its own); the pages show a transcript that is written when an exchange  *)
(* completes.  Exchanges of one session may overlap, die half-way, or be   *)
(* overtaken by a request that clears the session.                         *)
(*                                                                         *)
(* A message is <<exchange, kind>>, and so is the version of the message   *)
(* list that it ends.  The system prompt that every exchange adds is left  *)
(* out, as are the other channels of the graph, and the rows below the     *)
(* newest one, which nothing reads.                                        *)
(*                                                                         *)
(* The service names the namespace "chat" in the configuration of every    *)
(* call, and reads and deletes that namespace itself.  LangGraph may run a *)
(* root graph under the empty namespace all the same ("root" below): which *)
(* of the two the rows are kept under is a choice of the initial state.    *)
(***************************************************************************)
EXTENDS Naturals, Sequences, SequencesExt

CONSTANTS Exchanges, Clearers, NoVersion

ChatKinds == {"question", "call", "result", "answer"}

VARIABLES
  newest,      \* the version that the newest row of agent_checkpoints names
  blobs,       \* agent_checkpoint_blobs: version -> messages
  session,     \* the sessions row exists
  transcript,  \* its messages: who wrote them
  toolEvents,  \* <<exchange, whose tool call it names>>
  streams,     \* exchanges over the streaming endpoint
  namespace,   \* the one that the rows of the session are kept under
  reworded,    \* exchanges whose answer in tool-code form a second call of the model replaced
  xstage, xversion, memory,   \* per exchange: where it is, the version it builds on, its messages
  clstage, cleared,           \* per clearing request: where it is, what it managed to delete
  \* history: exchanges that met another exchange or a clearing; those begun;
  \* per clearing that met none, those it made forgotten; transcripts lost
  met, begun, forgotten, unwritten

chatVars == <<newest, blobs, session, transcript, toolEvents, streams, namespace, reworded,
              xstage, xversion, memory, clstage, cleared, met, begun, forgotten, unwritten>>

ChatInit ==
  /\ newest = NoVersion /\ blobs = <<>>
  /\ session = FALSE /\ transcript = <<>> /\ toolEvents = {}
  /\ streams \in SUBSET Exchanges
  /\ namespace \in {"chat", "root"} /\ reworded = {}
  /\ xstage = [e \in Exchanges |-> "idle"]
  /\ xversion = [e \in Exchanges |-> NoVersion]
  /\ memory = [e \in Exchanges |-> <<>>]
  /\ clstage = [c \in Clearers |-> "idle"]
  /\ cleared = [c \in Clearers |-> {}]
  /\ forgotten = [c \in Clearers |-> {}]
  /\ met = {} /\ begun = {} /\ unwritten = {}

InFlight == {e \in Exchanges : xstage[e] \notin {"idle", "done", "failed"}}
Clearing == {c \in Clearers : clstage[c] = "transcript"}

(* What get_tuple, and every later exchange, finds of the newest row.      *)
Stored(v) == IF v \in DOMAIN blobs THEN blobs[v] ELSE <<>>
Remembered == Stored(newest)

Stage(e, s) == xstage' = [xstage EXCEPT ![e] = s]
Overlap(new) ==
  met' = IF InFlight = {} /\ Clearing = {} THEN met ELSE met \union InFlight \union new
----------------------------------------------------------------------------
(* get_tuple reads the row over one connection and its blobs over another. *)
ReadRow(e) ==
  /\ xstage[e] = "idle"
  /\ Stage(e, "row")
  /\ xversion' = [xversion EXCEPT ![e] = newest]
  /\ begun' = begun \union {e}
  /\ Overlap({e})
  /\ UNCHANGED <<newest, blobs, session, transcript, toolEvents, streams, namespace, reworded,
                 memory, clstage, cleared, forgotten, unwritten>>

LoadBlobs(e) ==
  /\ xstage[e] = "row"
  /\ Stage(e, "loaded")
  /\ memory' = [memory EXCEPT ![e] = Stored(xversion[e])]
  /\ UNCHANGED <<newest, blobs, session, transcript, toolEvents, streams, namespace, reworded,
                 xversion, clstage, cleared, met, begun, forgotten, unwritten>>

(* The first checkpoint of an exchange holds its input, outside the        *)
(* messages: it names the version that was read.                           *)
PutInput(e) ==
  /\ xstage[e] = "loaded"
  /\ Stage(e, "input")
  /\ newest' = xversion[e]
  /\ UNCHANGED <<blobs, session, transcript, toolEvents, streams, namespace, reworded,
                 xversion, memory, clstage, cleared, met, begun, forgotten, unwritten>>

(* The model answers, or calls a tool once (bound).                        *)
FollowsMessage(s) ==
  CASE s = "input" -> {"question"}
    [] s = "question" -> {"call", "answer"}
    [] s = "call" -> {"result"}
    [] s = "result" -> {"answer"}
    [] OTHER -> {}

(* put: blobs of the new versions and the row, in one transaction.  Two    *)
(* processes never make the same version: it ends in a random fraction.    *)
PutMessage(e) ==
  \E kind \in FollowsMessage(xstage[e]) :
    LET version == <<e, kind>>
        list == Append(memory[e], version) IN
    /\ Stage(e, kind)
    /\ memory' = [memory EXCEPT ![e] = list]
    /\ xversion' = [xversion EXCEPT ![e] = version]
    /\ blobs' = [v \in DOMAIN blobs \union {version} |-> IF v = version THEN list ELSE blobs[v]]
    /\ newest' = version
    /\ UNCHANGED <<session, transcript, toolEvents, streams, namespace, reworded, clstage,
                   cleared, met, begun, forgotten, unwritten>>

(* save_chat_exchange: both messages, and the session row if it is new.    *)
(* Without streaming the answer may be a tool call in text form: query     *)
(* makes the call, shows what a second call of the model says to it, and   *)
(* no checkpoint ever holds that.                                          *)
SaveExchange(e) ==
  /\ xstage[e] = "answer"
  /\ Stage(e, "saved")
  /\ session' = TRUE
  /\ transcript' = Append(transcript, e)
  /\ \/ UNCHANGED reworded
     \/ e \notin streams /\ reworded' = reworded \union {e}
  /\ UNCHANGED <<newest, blobs, toolEvents, streams, namespace, xversion, memory, clstage,
                 cleared, met, begun, forgotten, unwritten>>

(* A stream collects the calls it sees pass; query takes them from the     *)
(* whole message list, and adds the one that it found in the answer.       *)
Callers(e) == {o \in Exchanges : <<o, "call">> \in ToSet(memory[e])}
EventsOf(e) == IF e \in streams THEN Callers(e) \intersect {e}
               ELSE Callers(e) \union (reworded \intersect {e})

AppendToolEvents(e) ==
  /\ xstage[e] = "saved"
  /\ IF EventsOf(e) = {} \/ session
       THEN Stage(e, "done") /\ toolEvents' = toolEvents \union {<<e, o>> : o \in EventsOf(e)}
       ELSE Stage(e, "failed") /\ UNCHANGED toolEvents   \* the foreign key is gone
  /\ UNCHANGED <<newest, blobs, session, transcript, streams, namespace, reworded, xversion,
                 memory, clstage, cleared, met, begun, forgotten, unwritten>>

(* The model raises, a write fails, the client of a stream leaves or the   *)
(* process dies: nothing is taken back.                                    *)
Abandon(e) ==
  /\ e \in InFlight
  /\ Stage(e, "failed")
  /\ UNCHANGED <<newest, blobs, session, transcript, toolEvents, streams, namespace, reworded,
                 xversion, memory, clstage, cleared, met, begun, forgotten, unwritten>>
----------------------------------------------------------------------------
Forget(c) ==
  forgotten' = IF InFlight = {} THEN [forgotten EXCEPT ![c] = begun] ELSE forgotten

DeleteNamespace(ns) ==
  IF ns = namespace THEN newest' = NoVersion /\ blobs' = <<>> ELSE UNCHANGED <<newest, blobs>>

(* Mutant: the empty namespace is deleted, not the one of the chat.        *)
ClearEmptyNamespace(c) ==
  /\ clstage[c] = "idle"
  /\ clstage' = [clstage EXCEPT ![c] = "transcript"]
  /\ Overlap({})
  /\ cleared' = [cleared EXCEPT ![c] = {"memory"}] /\ DeleteNamespace("root") /\ Forget(c)
  /\ UNCHANGED <<session, transcript, toolEvents, streams, namespace, reworded, xstage,
                 xversion, memory, begun, unwritten>>

(* delete_namespace takes the rows and the blobs of "chat", and says       *)
(* nothing when there are none; a failure is swallowed.                    *)
ClearMemory(c) ==
  /\ clstage[c] = "idle"
  /\ clstage' = [clstage EXCEPT ![c] = "transcript"]
  /\ Overlap({})
  /\ \/ cleared' = [cleared EXCEPT ![c] = {"memory"}] /\ DeleteNamespace("chat") /\ Forget(c)
     \/ UNCHANGED <<cleared, newest, blobs, forgotten>>
  /\ UNCHANGED <<session, transcript, toolEvents, streams, namespace, reworded, xstage,
                 xversion, memory, begun, unwritten>>

(* delete_session takes the messages and the tool events along.            *)
ClearTranscript(c) ==
  /\ clstage[c] = "transcript"
  /\ clstage' = [clstage EXCEPT ![c] = "done"]
  /\ \/ /\ session
        /\ session' = FALSE /\ transcript' = <<>> /\ toolEvents' = {}
        /\ unwritten' = unwritten \union ToSet(transcript)
        /\ cleared' = [cleared EXCEPT ![c] = @ \union {"transcript"}]
     \/ UNCHANGED <<session, transcript, toolEvents, cleared, unwritten>>   \* no row, or it raised
  /\ UNCHANGED <<newest, blobs, streams, namespace, reworded, xstage, xversion, memory, met,
                 begun, forgotten>>

ExchangeStep(e) ==
  \/ ReadRow(e) \/ LoadBlobs(e) \/ PutInput(e) \/ PutMessage(e)
  \/ SaveExchange(e) \/ AppendToolEvents(e) \/ Abandon(e)

ChatNext ==
  \/ \E e \in Exchanges : ExchangeStep(e)
  \/ \E c \in Clearers : ClearMemory(c) \/ ClearTranscript(c)

ChatSpec == ChatInit /\ [][ChatNext]_chatVars
----------------------------------------------------------------------------
(* What the session page shows: the transcript, or the agent's memory as   *)
(* far as it is under "chat".                                              *)
History == IF transcript # <<>> THEN transcript
           ELSE IF namespace = "chat" THEN Remembered ELSE <<>>

ExchangeStages == {"idle", "row", "loaded", "input", "saved", "done", "failed"} \union ChatKinds

(* Every variable keeps its type.                                          *)
ChatTypeOK ==
  /\ {newest} \union DOMAIN blobs \subseteq {NoVersion} \union Exchanges \X ChatKinds
  /\ xstage \in [Exchanges -> ExchangeStages]
  /\ \A e \in Exchanges : ToSet(memory[e]) \subseteq Exchanges \X ChatKinds
  /\ clstage \in [Clearers -> {"idle", "transcript", "done"}]
  /\ toolEvents \subseteq Exchanges \X Exchanges
  /\ namespace \in {"chat", "root"} /\ reworded \subseteq Exchanges

(* What the pages show of finished exchanges is what the agent remembers   *)
(* of them, complete, once and in the same order, unless an exchange met   *)
(* another one or the memory was cleared; the agent may remember more, but *)
(* only of exchanges that failed or whose transcript was cleared.  The     *)
(* answer that a second call of the model gave is not what the agent       *)
(* remembers: such an exchange was no stream, and once it is done a tool   *)
(* event of its own stands beside it.                                      *)
MemoryFollowsTranscript ==
  LET shown == {k \in DOMAIN transcript : transcript[k] \in Exchanges}
      Answered(i, k) == Remembered[i] = <<transcript[k], "answer">> IN
  /\ (\A c \in Clearers : clstage[c] = "idle") /\ met = {} =>
       /\ \A k \in shown :
            {transcript[k]} \X {"question", "answer"} \subseteq ToSet(Remembered)
       /\ \A k, l \in shown, i, j \in DOMAIN Remembered :
            Answered(i, k) /\ Answered(j, l) => ((i < j) <=> (k < l))
  /\ \A e \in Exchanges : <<e, "answer">> \in ToSet(Remembered) =>
       e \in ToSet(transcript) \union unwritten \/ xstage[e] \in {"answer", "failed"}
  /\ \A k \in shown : /\ xstage[transcript[k]] \in {"saved", "done", "failed"}
                       /\ <<transcript[k], "answer">> \in ToSet(memory[transcript[k]])
  /\ \A k \in shown : LET e == transcript[k] IN
       e \in reworded => e \notin streams /\ (xstage[e] = "done" => <<e, e>> \in toolEvents)

(* "Clear persisted and checkpoint-backed session history": an exchange    *)
(* that begins after a clearing that met none is not told what was said    *)
(* before, provided that the rows are under the namespace that is deleted; *)
(* and wherever they are, a page is empty after one that deleted both,     *)
(* while nothing has been asked since.  A tool event names a call of its   *)
(* own exchange, made or written out in its answer, or without streaming   *)
(* one of an exchange that the agent was told of.                          *)
ClearForgets ==
  /\ namespace = "chat" =>
       \A c \in Clearers : \A e \in Exchanges \ forgotten[c] :
         \A m \in ToSet(memory[e]) : m[1] \notin forgotten[c]
  /\ \A c \in Clearers :
       cleared[c] = {"memory", "transcript"} /\ begun \subseteq forgotten[c]
         => ToSet(History) \intersect (Exchanges \union Exchanges \X ChatKinds) = {}
  /\ \A ev \in toolEvents :
       /\ ev[1] # ev[2] => ev[1] \notin streams
       /\ <<ev[2], "call">> \in ToSet(memory[ev[1]]) \/ (ev[1] = ev[2] /\ ev[1] \in reworded)

(* The two stores of a conversation agree: the agent's memory with the     *)
(* transcript, and both with the clearings of the session.                 *)
ConversationAgrees == MemoryFollowsTranscript /\ ClearForgets
=============================================================================
