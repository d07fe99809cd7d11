----------------------------- MODULE McpBridge -----------------------------
(***************************************************************************)
(* `word-arena mcp stdio`: the loop that posts stdin frames to one MCP     *)
(* session, the task that forwards the session's notification stream, the  *)
(* task that writes stdout, and how they are taken down.                   *)
(***************************************************************************)
EXTENDS Integers, Sequences, SequencesExt

CONSTANTS
    FrameBuffer,   \* frames the channel to the writer holds
    MaxReads,      \* bound: stdin frames
    MaxNotes       \* bound: notifications

ASSUME BridgeAssumption == FrameBuffer \in Nat \ {0} /\ MaxReads \in Nat /\ MaxNotes \in Nat

VARIABLES
    brAt,         \* where run_bridge is
    brCancelled,  \* the cancellation token
    brSession,    \* a session id is known
    brServer,     \* the server's session: "none", "live" or "closed"
    brSse,        \* the notification task
    brReads,      \* stdin frames read
    brPosts,      \* the frames posted, in order
    brReplies,    \* frames of the present answer yet to be passed on
    brNotes,      \* notifications received
    brSent,       \* frames ever put into the channel
    brQueue,      \* the channel
    brOut,        \* frames on stdout
    brWriter,     \* "up" or "broken"
    brDeletes,    \* DELETE requests
    brResult      \* what run_bridge returns

mainVars == <<brAt, brSession, brReads, brPosts, brReplies, brDeletes, brResult>>
channelVars == <<brSent, brQueue>>
writerVars == <<brOut, brWriter>>
bridgeVars == <<mainVars, brCancelled, brServer, brSse, brNotes, channelVars, writerVars>>

Ended == brAt \in {"done", "abandoned"}

CanSend == brWriter = "up" /\ Len(brQueue) < FrameBuffer

SendFrame(f) == brSent' = Append(brSent, f) /\ brQueue' = Append(brQueue, f)

\* `?` in the loop: the function returns and leaves everything as it is.
Abandon(result) == brAt' = "abandoned" /\ brResult' = result

\* `break`: on to the orderly shutdown.
Break(result) == brAt' = "stopping" /\ brResult' = result

-----------------------------------------------------------------------------
(* run_bridge *)

ReadFrame(kind) ==
    /\ brAt = "read" /\ brReads < MaxReads
    /\ brReads' = brReads + 1
    /\ CASE kind = "eof" -> Break("ok") /\ UNCHANGED brPosts
         [] kind = "oversized" -> Break("protocol") /\ UNCHANGED brPosts
         [] kind = "malformed" -> Abandon("protocol") /\ UNCHANGED brPosts
         [] kind = "blank" -> UNCHANGED <<brAt, brResult, brPosts>>
         [] kind = "frame" -> brAt' = "posting" /\ brPosts' = Append(brPosts, brReads') /\ UNCHANGED brResult
    /\ UNCHANGED <<brSession, brReplies, brDeletes, brCancelled, brServer, brSse, brNotes, channelVars, writerVars>>

\* The POST fails: no answer, 401 or 403, another error status, or a body
\* that cannot be read.  The server may have taken the frame.
PostFails ==
    /\ brAt = "posting" /\ Abandon("remote")
    /\ brServer' \in {brServer, IF brServer = "none" THEN "live" ELSE brServer}
    /\ UNCHANGED <<brSession, brReads, brPosts, brReplies, brDeletes, brCancelled, brSse, brNotes,
                   channelVars, writerVars>>

\* The first POST that is answered opens the session.
PostAnswered(replies) ==
    /\ brAt = "posting" /\ brServer /= "closed"
    /\ brAt' = "answering" /\ brReplies' = replies /\ brServer' = "live"
    /\ UNCHANGED <<brSession, brReads, brPosts, brDeletes, brResult, brCancelled, brSse, brNotes,
                   channelVars, writerVars>>

PassReply ==
    /\ brAt = "answering" /\ brReplies > 0
    /\ IF brWriter = "broken"
       THEN Abandon("io") /\ UNCHANGED <<brReplies, channelVars>>
       ELSE CanSend /\ SendFrame(<<"reply", Last(brPosts)>>) /\ brReplies' = brReplies - 1
            /\ UNCHANGED <<brAt, brResult>>
    /\ UNCHANGED <<brSession, brReads, brPosts, brDeletes, brCancelled, brServer, brSse, brNotes, writerVars>>

\* The answer is passed on; the session is remembered and followed once.
FinishPost ==
    /\ brAt = "answering" /\ brReplies = 0
    /\ brAt' = "read" /\ brSession' = TRUE
    /\ brSse' = IF brSession THEN brSse ELSE "connecting"
    /\ UNCHANGED <<brReads, brPosts, brReplies, brDeletes, brResult, brCancelled, brServer, brNotes,
                   channelVars, writerVars>>

\* The select arms of the loop.
NoticeInterrupt ==
    /\ brAt \in {"read", "posting"} /\ brCancelled /\ Break("interrupted")
    /\ UNCHANGED <<brSession, brReads, brPosts, brReplies, brDeletes, brCancelled, brServer, brSse, brNotes,
                   channelVars, writerVars>>

\* Mutant: the task is left to itself.
StopWithoutWaiting ==
    /\ brAt = "stopping" /\ brAt' = "deleting" /\ brCancelled' = TRUE
    /\ UNCHANGED <<brSession, brReads, brPosts, brReplies, brDeletes, brResult, brServer, brSse, brNotes,
                   channelVars, writerVars>>

\* The token is cancelled and the notification task awaited.
StopForwarder ==
    /\ brAt = "stopping" /\ brCancelled' = TRUE
    /\ brAt' = IF brSse \in {"none", "ended"} THEN "deleting" ELSE "stopping"
    /\ UNCHANGED <<brSession, brReads, brPosts, brReplies, brDeletes, brResult, brServer, brSse, brNotes,
                   channelVars, writerVars>>

\* DELETE, whose answer is awaited for a second and not looked at.
DeleteSession ==
    /\ brAt = "deleting" /\ brAt' = "draining"
    /\ IF brSession
       THEN brDeletes' = brDeletes + 1 /\ brServer' \in {"closed", brServer}
       ELSE UNCHANGED <<brDeletes, brServer>>
    /\ UNCHANGED <<brSession, brReads, brPosts, brReplies, brResult, brCancelled, brSse, brNotes,
                   channelVars, writerVars>>

\* The last sender is dropped; the writer ends with the channel.
FinishBridge ==
    /\ brAt = "draining" /\ (brQueue = <<>> \/ brWriter = "broken")
    /\ brAt' = "done" /\ brResult' = IF brWriter = "broken" THEN "io" ELSE brResult
    /\ UNCHANGED <<brSession, brReads, brPosts, brReplies, brDeletes, brCancelled, brServer, brSse, brNotes,
                   channelVars, writerVars>>

-----------------------------------------------------------------------------
(* The other tasks *)

\* spawn_sse_forwarder: GET; only 404 ends it, since send_mcp reports 401 and
\* 403 as errors.
SseConnect(outcome) ==
    /\ brSse = "connecting" /\ ~brCancelled
    /\ brSse' = CASE outcome = "success" -> "streaming" [] outcome = "not_found" -> "ended" [] OTHER -> "waiting"
    /\ UNCHANGED <<mainVars, brCancelled, brServer, brNotes, channelVars, writerVars>>

\* forward_sse: an event is read, and then passed on when there is room.
SseEvent ==
    /\ brSse = "streaming" /\ brNotes < MaxNotes
    /\ brNotes' = brNotes + 1 /\ brSse' = "passing"
    /\ UNCHANGED <<mainVars, brCancelled, brServer, channelVars, writerVars>>

SsePass ==
    /\ brSse = "passing"
    /\ IF brWriter = "broken" THEN brSse' = "waiting" /\ UNCHANGED channelVars
       ELSE CanSend /\ SendFrame(<<"note", brNotes>>) /\ brSse' = "streaming"
    /\ UNCHANGED <<mainVars, brCancelled, brServer, brNotes, writerVars>>

\* The stream ends or fails; the back-off is over.
SseEnd ==
    /\ brSse = "streaming" /\ brSse' = "waiting"
    /\ UNCHANGED <<mainVars, brCancelled, brServer, brNotes, channelVars, writerVars>>

SseRetry ==
    /\ brSse = "waiting" /\ ~brCancelled /\ brSse' = "connecting"
    /\ UNCHANGED <<mainVars, brCancelled, brServer, brNotes, channelVars, writerVars>>

\* Mutant: an open stream is not given up.
SseCancelledBetween ==
    /\ brCancelled /\ brSse \in {"connecting", "waiting"} /\ brSse' = "ended"
    /\ UNCHANGED <<mainVars, brCancelled, brServer, brNotes, channelVars, writerVars>>

\* Cancelled at any await but the one that passes an event on.
SseCancelled ==
    /\ brCancelled /\ brSse \in {"connecting", "streaming", "waiting"} /\ brSse' = "ended"
    /\ UNCHANGED <<mainVars, brCancelled, brServer, brNotes, channelVars, writerVars>>

WriteFrame ==
    /\ brWriter = "up" /\ brQueue /= <<>> /\ ~Ended
    /\ brOut' = Append(brOut, Head(brQueue)) /\ brQueue' = Tail(brQueue)
    /\ UNCHANGED <<mainVars, brCancelled, brServer, brSse, brNotes, brSent, brWriter>>

BreakStdout ==
    /\ brWriter = "up" /\ ~Ended /\ brWriter' = "broken"
    /\ UNCHANGED <<mainVars, brCancelled, brServer, brSse, brNotes, channelVars, brOut>>

\* ctrl_c in run_stdio.
Interrupt ==
    /\ ~brCancelled /\ ~Ended /\ brCancelled' = TRUE
    /\ UNCHANGED <<mainVars, brServer, brSse, brNotes, channelVars, writerVars>>

BridgeInit ==
    /\ brAt = "read" /\ brCancelled = FALSE /\ brSession = FALSE /\ brServer = "none" /\ brSse = "none"
    /\ brReads = 0 /\ brPosts = <<>> /\ brReplies = 0 /\ brNotes = 0
    /\ brSent = <<>> /\ brQueue = <<>> /\ brOut = <<>> /\ brWriter = "up"
    /\ brDeletes = 0 /\ brResult = "none"

MainStep ==
    \/ PassReply \/ FinishPost \/ NoticeInterrupt \/ StopForwarder \/ DeleteSession \/ FinishBridge
    \/ PostFails \/ \E replies \in 0..1 : PostAnswered(replies)

BridgeNext ==
    \/ MainStep \/ SsePass \/ SseCancelled \/ WriteFrame
    \/ \E kind \in {"eof", "oversized", "malformed", "blank", "frame"} : ReadFrame(kind)
    \/ ~Ended /\ (SseEvent \/ SseEnd \/ SseRetry
                  \/ \E outcome \in {"success", "not_found", "failure"} : SseConnect(outcome))
    \/ BreakStdout \/ Interrupt

BridgeSpec == BridgeInit /\ [][BridgeNext]_bridgeVars

-----------------------------------------------------------------------------
\* The channel stays within its bound, and the notification task belongs to
\* a session.
BridgeTypeOK ==
    /\ Len(brQueue) <= FrameBuffer /\ brDeletes \in 0..1
    /\ brSse \in {"none", "connecting", "streaming", "passing", "waiting", "ended"}
    /\ brSse /= "none" => brSession

\* Each stdin frame is posted at most once, in order: an ambiguous POST is
\* never repeated.
PostedOnce == \A i, j \in DOMAIN brPosts : i < j => brPosts[i] < brPosts[j]

\* A shutdown that is not cut short deletes the session it knows of, once,
\* after the notification task has ended, so the task never sees it go.
ShutdownClosesSession ==
    /\ (brAt = "done" /\ brSession) => brDeletes = 1
    /\ brDeletes > 0 => brSse = "ended"

\* Whatever was forwarded before the shutdown is on stdout when it is over,
\* in order, unless stdout broke, which is reported.
ForwardedIsWritten ==
    /\ IsPrefix(brOut, brSent)
    /\ (brAt = "done" /\ brResult /= "io") => brOut = brSent

\* Once interrupted or at the end of its input the bridge ends, though its
\* notification task may be waiting for room in the channel.
ShutdownCompletes == (brAt = "stopping" \/ (brCancelled /\ brAt \in {"read", "posting"})) ~> Ended

\* Frames are posted once, what was forwarded is written, a shutdown closes
\* the session after its notification task.
BridgeSafety == BridgeTypeOK /\ PostedOnce /\ ShutdownClosesSession /\ ForwardedIsWritten
=============================================================================
