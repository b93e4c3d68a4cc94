------------------------------ MODULE Preview -------------------------------
(***************************************************************************)
(* The host's preview (internal/preview, signaling/preview_hub.go and the  *)
(* page's preview-stream.ts).  The compositor's goroutine encodes every    *)
(* second frame into a bounded channel, the publishing goroutine writes    *)
(* the channel's chunks to the sockets, and the compositor itself writes   *)
(* the cuts; the goroutine that accepts a socket registers it, asks for a  *)
(* keyframe and writes the init message.  A cut may therefore overtake     *)
(* the chunks in the channel, or be overtaken by the keyframe it asked     *)
(* for, and chunks may come before the init message.                       *)
(*                                                                         *)
(* The three write to one socket without a lock, unlike the other hubs: a  *)
(* write begins and ends, and where two overlap the library panics, which  *)
(* ends the daemon, or their messages are mixed up.                        *)
(*                                                                         *)
(* A page shows what it can decode from the keyframe on that it got after  *)
(* the last init or cut; a delta that was dropped or lost spoils the       *)
(* deltas after it, or ends the page's decoder for good.  Pictures,        *)
(* timestamps and packing are left out.                                    *)
(***************************************************************************)
EXTENDS Integers, Sequences

CONSTANTS
  Viewers,     \* preview sockets, each connected once at most
  Fps,         \* Config.FPS: a keyframe at least every Fps frames
  ChunkCap,    \* capacity of Stream.out
  MaxSwitches  \* bound: changes of the room's active video

ASSUME PreviewAssumption ==
  Fps \in Nat \ {0} /\ ChunkCap \in Nat \ {0} /\ MaxSwitches \in Nat

Chunks == [key : BOOLEAN, spoilt : BOOLEAN]
NoChunk == [key |-> FALSE, spoilt |-> FALSE]

VARIABLES
  active,      \* the room's Selection.ActiveVideoID, as the number of its changes
  lastVideo,   \* Stream.lastVideo, likewise
  odd,         \* subsample.n%2 == 1
  frameN,      \* Stream.frameN%Fps, and Fps for "none yet"
  forced,      \* the encoder's force_keyframe
  compositor,  \* where the compositor's goroutine is
  chunk,       \* the chunk it has encoded
  cutTo,       \* the sockets its cut has still to be written to
  cutting,     \* the one it is writing it to
  spoilt,      \* history: a frame was dropped or lost since the last keyframe
  out,         \* Stream.out
  publishing,  \* the chunk the publishing goroutine writes, the sockets left, the one at
  viewer,      \* per socket, where the goroutine that accepts it is
  picture,     \* per socket, what its page shows: "none", "live", "spoilt", or its
               \* decoder is "closed"
  mixed,       \* the sockets on which writes overlapped: what their pages show is left open
  crashed      \* the daemon ended, by a panic that nothing recovers

streamVars == <<lastVideo, odd, frameN, forced, chunk, spoilt, out>>
cutVars == <<cutTo, cutting>>
viewVars == <<viewer, picture>>
socketVars == <<mixed, crashed>>
previewVars == <<active, streamVars, compositor, cutVars, publishing, viewVars, socketVars>>

NotPublishing == [chunk |-> NoChunk, to |-> {}, at |-> {}, busy |-> FALSE]

PreviewInit ==
  /\ active = 1 /\ lastVideo = 0
  /\ odd = FALSE /\ frameN = Fps /\ forced = TRUE
  /\ compositor = "waiting" /\ chunk = NoChunk /\ cutTo = {} /\ cutting = {}
  /\ spoilt = FALSE
  /\ out = << >>
  /\ publishing = NotPublishing
  /\ viewer = [v \in Viewers |-> "away"]
  /\ picture = [v \in Viewers |-> "none"]
  /\ mixed = {} /\ crashed = FALSE

Registered == { v \in Viewers : viewer[v] \in {"added", "asked", "greeting", "open"} }

-----------------------------------------------------------------------------
(* Writes to a socket (gorilla's WriteJSON and WriteMessage).                *)

\* A cut, a chunk or the init message is being written to v's socket.
Writing(v) == v \in cutting \/ v \in publishing.at \/ viewer[v] = "greeting"

\* A write begins.  Beside another, either of the two may notice and panic, and else
\* their bytes are mixed up.  The panic is recovered if it is the goroutine that accepts
\* the socket that noticed; that its write has ended then is WriteInit too.
BeginWrite(v) ==
  IF Writing(v)
  THEN mixed' = mixed \cup {v} /\ crashed' \in BOOLEAN
  ELSE UNCHANGED socketVars

\* What a write that has ended makes of a page's picture.
Shown(v, p) == [picture EXCEPT ![v] = IF v \in mixed THEN "none" ELSE p]

-----------------------------------------------------------------------------
(* The compositor: a tick of RunCompositor, Stream.OnFrame and onCut.        *)

SwitchVideo ==
  /\ active <= MaxSwitches
  /\ active' = active + 1
  /\ UNCHANGED <<streamVars, compositor, cutVars, publishing, viewVars, socketVars>>

IsCut == active # lastVideo
NextFrame == IF frameN = Fps THEN 1 ELSE (frameN + 1) % Fps
FirstOrFpsth_First == frameN = Fps
FirstOrFpsth == frameN = Fps \/ NextFrame = 0

AfterFrame(cut) == IF cut THEN "cut" ELSE "waiting"

\* The first of two frames is not encoded; a cut it shows asks for a keyframe.
SkipFrame ==
  /\ compositor = "waiting" /\ ~odd
  /\ odd' = TRUE
  /\ lastVideo' = active
  /\ forced' = (forced \/ IsCut)
  /\ compositor' = AfterFrame(IsCut)
  /\ cutTo' = IF IsCut THEN Registered ELSE {}
  /\ UNCHANGED <<active, frameN, chunk, spoilt, out, cutting, publishing, viewVars, socketVars>>

\* The second is; the encoder may choose a keyframe of its own accord.
BeginEncode ==
  /\ compositor = "waiting" /\ odd
  /\ odd' = FALSE
  /\ lastVideo' = active
  /\ \E key \in {forced \/ IsCut \/ FirstOrFpsth, TRUE} :
       chunk' = [key |-> key, spoilt |-> ~key /\ spoilt]
  /\ forced' = FALSE
  /\ compositor' = IF IsCut THEN "encoding-cut" ELSE "encoding"
  /\ UNCHANGED <<active, frameN, spoilt, out, cutVars, publishing, viewVars, socketVars>>

EndEncode ==
  /\ compositor \in {"encoding", "encoding-cut"}
  /\ compositor' = AfterFrame(compositor = "encoding-cut")
  /\ cutTo' = IF compositor = "encoding-cut" THEN Registered ELSE {}
  /\ chunk' = NoChunk
  /\ UNCHANGED <<active, lastVideo, odd, forced, cutting, publishing, viewVars, socketVars>>

\* The encoder fails or returns nothing: the keyframe it was to make is lost.  If it fails
\* after the frame was encoded, the frames after it refer to one that nobody gets.
EncodeFails ==
  /\ EndEncode
  /\ spoilt' \in {spoilt, TRUE}
  /\ UNCHANGED <<frameN, out>>

\* A keyframe waits for room in the channel ...
SendKey ==
  /\ chunk.key /\ Len(out) < ChunkCap
  /\ EndEncode
  /\ frameN' = NextFrame
  /\ out' = Append(out, chunk)
  /\ spoilt' = FALSE

DeltaFits_Always == TRUE
DeltaFits == Len(out) < ChunkCap

\* ... a delta is dropped if there is none.
SendDelta ==
  /\ ~chunk.key
  /\ EndEncode
  /\ frameN' = NextFrame
  /\ IF DeltaFits
     THEN out' = Append(out, chunk) /\ UNCHANGED spoilt
     ELSE spoilt' = TRUE /\ UNCHANGED out

\* A page that is to begin anew clears its picture; a decoder that is closed stays so.
Cleared(v) == IF picture[v] = "closed" THEN "closed" ELSE "none"

\* BroadcastCut, socket by socket.
BeginCut(v) ==
  /\ v \in cutTo /\ cutting = {}
  /\ cutTo' = cutTo \ {v}
  /\ cutting' = {v}
  /\ BeginWrite(v)
  /\ UNCHANGED <<active, streamVars, compositor, publishing, viewVars>>

WriteCut(v) ==
  /\ v \in cutting
  /\ cutting' = {}
  /\ picture' = Shown(v, Cleared(v))
  /\ UNCHANGED <<active, streamVars, compositor, cutTo, publishing, viewer, socketVars>>

CutSent ==
  /\ compositor = "cut" /\ cutTo = {} /\ cutting = {}
  /\ compositor' = "waiting"
  /\ UNCHANGED <<active, streamVars, cutVars, publishing, viewVars, socketVars>>

-----------------------------------------------------------------------------
(* PublishLoop and broadcastBinary.                                          *)

TakeChunk ==
  /\ ~publishing.busy /\ out # << >>
  /\ publishing' = [chunk |-> Head(out), to |-> Registered, at |-> {}, busy |-> TRUE]
  /\ out' = Tail(out)
  /\ UNCHANGED <<active, lastVideo, odd, frameN, forced, chunk, spoilt, compositor,
                 cutVars, viewVars, socketVars>>

\* onMessage: before the init message there is no codec to configure a decoder with.  A
\* delta that lacks a frame before it may be shown, or be an error that closes the
\* decoder, which the page only logs.
Decoded(v) ==
  CASE viewer[v] # "open" -> {"none"}
    [] picture[v] = "closed" -> {"closed"}
    [] publishing.chunk.key -> {"live"}
    [] picture[v] = "none" -> {"none"}
    [] publishing.chunk.spoilt -> {"spoilt", "closed"}
    [] OTHER -> {picture[v]}

BeginChunk(v) ==
  /\ v \in publishing.to /\ publishing.at = {}
  /\ publishing' = [publishing EXCEPT !.to = @ \ {v}, !.at = {v}]
  /\ BeginWrite(v)
  /\ UNCHANGED <<active, streamVars, compositor, cutVars, viewVars>>

WriteChunk(v) ==
  /\ v \in publishing.at
  /\ publishing' = [publishing EXCEPT !.at = {}]
  /\ \E p \in Decoded(v) : picture' = Shown(v, p)
  /\ UNCHANGED <<active, streamVars, compositor, cutVars, viewer, socketVars>>

ChunkSent ==
  /\ publishing.busy /\ publishing.to = {} /\ publishing.at = {}
  /\ publishing' = NotPublishing
  /\ UNCHANGED <<active, streamVars, compositor, cutVars, viewVars, socketVars>>

-----------------------------------------------------------------------------
(* HandleUpgrade.                                                            *)

ViewerGoes(v, from, to) ==
  /\ viewer[v] = from
  /\ viewer' = [viewer EXCEPT ![v] = to]
  /\ UNCHANGED <<active, lastVideo, odd, frameN, chunk, spoilt, out, compositor, cutVars,
                 publishing>>

AddClient(v) == ViewerGoes(v, "away", "added") /\ UNCHANGED <<forced, picture, socketVars>>
AskKeyframe(v) ==
  ViewerGoes(v, "added", "asked") /\ forced' = TRUE /\ UNCHANGED <<picture, socketVars>>
BeginInit(v) ==
  ViewerGoes(v, "asked", "greeting") /\ BeginWrite(v) /\ UNCHANGED <<forced, picture>>
WriteInit(v) ==
  /\ ViewerGoes(v, "greeting", "open")
  /\ picture' = Shown(v, Cleared(v))
  /\ UNCHANGED <<forced, socketVars>>
RemoveClient(v) ==
  /\ ViewerGoes(v, "open", "gone")
  /\ picture' = Shown(v, "none")
  /\ UNCHANGED <<forced, socketVars>>

-----------------------------------------------------------------------------

Compositor ==
  \/ SkipFrame \/ BeginEncode \/ SendKey \/ SendDelta
  \/ (\E v \in Viewers : BeginCut(v) \/ WriteCut(v)) \/ CutSent
Publisher == TakeChunk \/ (\E v \in Viewers : BeginChunk(v) \/ WriteChunk(v)) \/ ChunkSent
Upgrade(v) == AskKeyframe(v) \/ BeginInit(v) \/ WriteInit(v)

PreviewNext ==
  /\ ~crashed
  /\ \/ Compositor \/ EncodeFails \/ Publisher
     \/ SwitchVideo
     \/ \E v \in Viewers : AddClient(v) \/ Upgrade(v) \/ RemoveClient(v)

\* While the daemon lives its goroutines run, writes to sockets end, and the encoder
\* succeeds now and then.
PreviewFairness ==
  /\ WF_previewVars(~crashed /\ Compositor) /\ WF_previewVars(~crashed /\ Publisher)
  /\ SF_previewVars(~crashed /\ SendKey) /\ SF_previewVars(~crashed /\ SendDelta)
  /\ \A v \in Viewers : WF_previewVars(~crashed /\ Upgrade(v))

PreviewSpec == PreviewInit /\ [][PreviewNext]_previewVars /\ PreviewFairness
-----------------------------------------------------------------------------
(* Properties.                                                              *)

\* Every variable has its type; the channel is never longer than its capacity.
PreviewTypeOK ==
  /\ active \in 1 .. MaxSwitches + 1 /\ lastVideo \in 0 .. MaxSwitches + 1
  /\ odd \in BOOLEAN /\ forced \in BOOLEAN /\ spoilt \in BOOLEAN
  /\ frameN \in 0 .. Fps
  /\ compositor \in {"waiting", "encoding", "encoding-cut", "cut"}
  /\ chunk \in Chunks /\ publishing.chunk \in Chunks
  /\ cutTo \subseteq Viewers /\ cutting \subseteq Viewers
  /\ publishing.to \subseteq Viewers /\ publishing.at \subseteq Viewers
  /\ \A i \in 1 .. Len(out) : out[i] \in Chunks
  /\ Len(out) <= ChunkCap
  /\ viewer \in [Viewers -> {"away", "added", "asked", "greeting", "open", "gone"}]
  /\ picture \in [Viewers -> {"none", "live", "spoilt", "closed"}]
  /\ mixed \subseteq Viewers /\ crashed \in BOOLEAN

\* A page that is connected gets to a clean picture again and again, whatever cuts,
\* lost keyframes, dropped deltas and late init messages it met, in whatever order they
\* reached it: what keeps a page from one for good is that writes to its socket
\* overlapped, which may end the daemon, or that its decoder was closed by a frame that
\* lacks another, for the page makes no new one (stream.go:97-136; preview_hub.go:31-66,
\* 108-114; preview-stream.ts:74-91, 107-173).
PreviewRecovers ==
  \A v \in Viewers :
    viewer[v] = "open" ~> \/ picture[v] \in {"live", "closed"} \/ viewer[v] = "gone"
                         \/ v \in mixed \/ crashed
=============================================================================
