------------------------ MODULE VirtualOutput_proofs -------------------------
(***************************************************************************)
(* The virtual output, for every driver, picture and sequence of failures: *)
(* pictures are converted inside their buffers, nothing that was opened is *)
(* left over, and the sink plays what was written.                         *)
(*                                                                         *)
(* What is held is a function of how far the opening came (HeldAt); a      *)
(* frame is written only when the driver's format is known and usable.     *)
(***************************************************************************)
EXTENDS VirtualOutput, TLAPS

-----------------------------------------------------------------------------
(* Sizes and offsets of pictures.                                           *)

\* The division of Go's ints and of TLA+ agree on numbers from 0 on.
LEMMA DivBound ==
  ASSUME NEW a \in Nat, NEW b \in Nat \ {0}
  PROVE  /\ a \div b \in Nat
         /\ b * (a \div b) <= a
         /\ a < b * (a \div b) + b
  OBVIOUS

\* A product of an index and a stride, and of what is below.
LEMMA ProductBelow ==
  ASSUME NEW a \in Nat, NEW b \in Nat, NEW k \in Nat, a + 1 <= b
  PROVE  a * k + k <= b * k
<1>1. (a + 1) * k <= b * k
  OBVIOUS
<1> QED BY <1>1

\* Every pixel of a scaled picture has a pixel of the source to stand for
\* (scale.go:8-12; v4l2.go:301-308).
THEOREM ScaledInRange ==
  ASSUME NEW dn \in Nat \ {0}, NEW s \in Nat \ {0}, NEW d \in 0 .. dn - 1
  PROVE  Scaled(d, dn, s) \in 0 .. s - 1
<1> DEFINE q == (d * s) \div dn
<1>1. d * s \in Nat
  OBVIOUS
<1>2. q \in Nat /\ dn * q <= d * s
  BY <1>1, DivBound
<1> HIDE DEF q
<1>3. d * s + s <= dn * s
  BY ProductBelow
<1>4. ASSUME q >= s PROVE FALSE
  <2>1. dn * s <= dn * q
    BY <1>2, <1>4
  <2> QED BY <1>1, <1>2, <1>3, <2>1
<1> QED BY <1>2, <1>4 DEF Scaled, q

\* The pixels of a picture lie inside its buffer.
LEMMA PixelInPicture ==
  ASSUME NEW w \in Nat \ {0}, NEW h \in Nat \ {0}, NEW x \in 0 .. w - 1, NEW y \in 0 .. h - 1
  PROVE  /\ y * w + x \in Nat
         /\ y * w + x + 1 <= w * h
<1>1. y * w + w <= h * w
  BY ProductBelow
<1>2. y * w \in Nat /\ h * w = w * h
  OBVIOUS
<1>3. w * h \in Nat
  OBVIOUS
<1> QED BY <1>1, <1>2, <1>3

\* No pixel that scaling reads lies outside the source's buffer, for any two sizes
\* (scale.go:7-20; v4l2.go:296-311).
THEOREM ScalingStaysInSource ==
  ASSUME NEW dw \in Nat \ {0}, NEW dh \in Nat \ {0}, NEW sw \in Nat \ {0}, NEW sh \in Nat \ {0},
         NEW x \in 0 .. dw - 1, NEW y \in 0 .. dh - 1
  PROVE  /\ ScaledOffset(x, y, dw, dh, sw, sh) >= 0
         /\ ScaledOffset(x, y, dw, dh, sw, sh) + 3 < RgbaSize(sw, sh)
<1> DEFINE sx == Scaled(x, dw, sw)
           sy == Scaled(y, dh, sh)
<1>1. sx \in 0 .. sw - 1 /\ sy \in 0 .. sh - 1
  BY ScaledInRange
<1> HIDE DEF sx, sy
<1>2. sy * sw + sx \in Nat /\ sy * sw + sx + 1 <= sw * sh
  BY <1>1, PixelInPicture
<1>3. sw * sh \in Nat
  OBVIOUS
<1>4. (sy * sw + sx) * 4 + 3 < (sw * sh) * 4 /\ (sy * sw + sx) * 4 >= 0
  BY <1>2, <1>3
<1> QED BY <1>4 DEF ScaledOffset, RgbaOffset, RgbaSize, sx, sy

\* The four bytes of a pair of pixels lie inside the frame, if the driver's width is
\* even (v4l2.go:327-347).
THEOREM YuyvStaysInFrame ==
  ASSUME NEW w \in Nat \ {0}, NEW h \in Nat \ {0}, NEW n \in Nat, NEW k \in Nat,
         w = 2 * n, NEW x \in 0 .. w - 1, x = 2 * k, NEW y \in 0 .. h - 1
  PROVE  YuyvOffset(x, y, w) + 3 < w * h * 2
<1>1. x + 1 \in 0 .. w - 1
  OBVIOUS
<1>2. y * w + (x + 1) \in Nat /\ y * w + (x + 1) + 1 <= w * h
  BY <1>1, PixelInPicture
<1>3. y * w \in Nat /\ w * h \in Nat
  OBVIOUS
<1>4. (y * w + x) * 2 + 3 < (w * h) * 2
  BY <1>2, <1>3
<1> QED BY <1>4 DEF YuyvOffset

\* Of an odd width the last pair of the last row does not: a pixel taken for two, of which
\* two bytes are outside (v4l2.go:332-343).
THEOREM OddWidthOverruns ==
  ASSUME NEW w \in Nat \ {0}, NEW h \in Nat \ {0}, NEW n \in Nat, w = 2 * n + 1
  PROVE  /\ w - 1 \in 0 .. w - 1 /\ h - 1 \in 0 .. h - 1 /\ (w - 1) % 2 = 0
         /\ YuyvOffset(w - 1, h - 1, w) + 2 = w * h * 2
<1>1. w - 1 \in 0 .. w - 1 /\ h - 1 \in 0 .. h - 1
  OBVIOUS
<1>2. (w - 1) % 2 = 0
  <2>1. w - 1 = 2 * n
    OBVIOUS
  <2> QED BY <2>1
<1>3. PICK k \in Nat : h = k + 1
  <2>1. h - 1 \in Nat /\ h = (h - 1) + 1
    OBVIOUS
  <2> QED BY <2>1
<1>4. (h - 1) * w + (w - 1) + 1 = w * h
  <2>1. h - 1 = k /\ w * (k + 1) = k * w + w /\ k * w \in Nat
    BY <1>3
  <2> QED BY <1>3, <2>1
<1>5. (h - 1) * w \in Int /\ w * h \in Int
  OBVIOUS
<1>6. ((h - 1) * w + (w - 1)) * 2 + 2 = (w * h) * 2
  BY <1>4, <1>5
<1> QED BY <1>1, <1>2, <1>6 DEF YuyvOffset

\* So the answers that make the daemon panic are those of YUYV with an odd width, and no
\* others (v4l2.go:196-199, 327-347).
THEOREM OverrunsExactlyOdd ==
  ASSUME NEW p, p.width \in Nat \ {0}, p.height \in Nat \ {0}
  PROVE  Overruns(p) <=> OddYuyv(p)
<1> DEFINE w == p.width
           h == p.height
<1>1. w \in Nat \ {0} /\ h \in Nat \ {0}
  OBVIOUS
<1>2. ASSUME p.format = "yuyv" PROVE FrameSizeOf(p) = w * h * 2
  BY <1>2 DEF FrameSizeOf
<1>3. ASSUME OddYuyv(p) PROVE Overruns(p)
  <2>1. p.format = "yuyv" /\ w % 2 = 1
    BY <1>3 DEF OddYuyv
  <2> HIDE DEF w, h
  <2>2. PICK n \in Nat : w = 2 * n + 1
    BY <1>1, <2>1
  <2>3. /\ w - 1 \in 0 .. w - 1 /\ h - 1 \in 0 .. h - 1 /\ (w - 1) % 2 = 0
        /\ YuyvOffset(w - 1, h - 1, w) + 2 = w * h * 2
    BY <1>1, <2>2, OddWidthOverruns
  <2>4. YuyvOffset(w - 1, h - 1, w) \in Int /\ w * h * 2 \in Int
    BY <1>1 DEF YuyvOffset
  <2>5. YuyvOffset(w - 1, h - 1, w) + 4 > FrameSizeOf(p)
    BY <1>2, <2>1, <2>3, <2>4
  <2>6. QED
    BY <2>1, <2>3, <2>5 DEF Overruns, w, h
<1>4. ASSUME Overruns(p), ~OddYuyv(p) PROVE FALSE
  <2>1. p.format = "yuyv"
    BY <1>4 DEF Overruns
  <2>2. PICK x \in 0 .. w - 1, y \in 0 .. h - 1 :
          x % 2 = 0 /\ YuyvOffset(x, y, w) + 4 > FrameSizeOf(p)
    BY <1>4 DEF Overruns
  <2>3. w % 2 # 1
    BY <1>4, <2>1 DEF OddYuyv
  <2> HIDE DEF w, h
  <2>4. PICK n \in Nat : w = 2 * n
    BY <1>1, <2>3
  <2>5. PICK k \in Nat : x = 2 * k
    BY <1>1, <2>2
  <2>6. YuyvOffset(x, y, w) + 3 < w * h * 2
    BY <1>1, <2>2, <2>4, <2>5, YuyvStaysInFrame
  <2>7. YuyvOffset(x, y, w) \in Int /\ w * h * 2 \in Int
    BY <1>1, <2>2 DEF YuyvOffset
  <2>8. QED
    BY <1>2, <2>1, <2>2, <2>6, <2>7
<1>5. QED
  BY <1>3, <1>4

\* What is written to the device has the size its driver set, whatever format it chose
\* and however that fits the picture (v4l2.go:263-294).
THEOREM ConvertedHasDriverSize ==
  ASSUME NEW p, p.width \in Nat, p.height \in Nat, p.sizeimage \in Nat \ {0}
  PROVE  ConvertedSize(p) = p.sizeimage
BY DEF ConvertedSize, PaddedSize, FrameSizeOf

-----------------------------------------------------------------------------
(* Opening, closing and writing.                                            *)

\* What is held when the opening is at a step, or over.
HeldAt ==
  CASE opening \in {"find", "open", "failed", "panicked"} -> {}
    [] opening \in {"sink", "load"} -> {"file", "client"}
    [] opening = "recheck" -> {"file", "client", "module"}
    [] opening \in {"playback", "ready"} ->
         IF daemon = "stopped" THEN {}
         ELSE IF created THEN {"file", "client", "module"} ELSE {"file", "client"}
    [] OTHER -> {"file"}

BeforeFormat == {"find", "open", "query", "formats", "set"}

OpenInv ==
  /\ opening \in OpenSteps \cup {"ready", "failed", "panicked"}
  /\ daemon \in {"waiting", "running", "fallback", "stopped", "crashed"}
  /\ daemon \in {"running", "stopped"} => opening = "ready"
  /\ daemon = "crashed" => opening = "panicked"
  /\ created \in BOOLEAN
  /\ opening \notin {"playback", "ready", "failed"} => ~created
  /\ held = HeldAt

PixInv ==
  \/ pix = NoPix /\ wrote = 0 /\ opening \in BeforeFormat \cup {"failed"}
  \/ /\ pix \in PixFormats /\ UsablePix(pix) /\ wrote \in {0, pix.sizeimage}
     /\ opening \notin BeforeFormat
     /\ opening \in {"prime", "panicked"} => wrote = 0
     /\ opening = "panicked" => Overruns(pix)
     /\ wrote # 0 \/ opening \notin {"prime", "failed", "panicked"} => ~Overruns(pix)

\* Nothing is open at the start.
LEMMA OutputInvInit == OutputInit => OpenInv /\ PixInv
BY DEF OutputInit, OpenInv, PixInv, HeldAt, OpenSteps, BeforeFormat

\* The steps of the opener keep the account of what is held.
LEMMA OpenerKeepsHeld == ASSUME OpenInv, Opener PROVE OpenInv'
<1> USE DEF OpenInv, HeldAt, OpenSteps
<1>1. ASSUME NEW at \in OpenSteps, OpenStep(at) PROVE OpenInv'
  <2>1. opening = at /\ opening' = After[at] /\ daemon' = daemon
    BY <1>1 DEF OpenStep
  <2>2. held' = held \cup Acquired(at)
    BY <1>1 DEF OpenStep
  <2>3. created' = (created \/ at = "recheck")
    BY <1>1 DEF OpenStep
  <2>4. daemon \notin {"running", "stopped"}
    BY <2>1
  <2>5. CASE at \in {"find", "open", "query", "formats", "set", "prime", "refresh", "client"}
    BY <2>1, <2>2, <2>3, <2>4, <2>5 DEF After, Acquired
  <2>6. CASE at \in {"sink", "load"}
    BY <2>1, <2>2, <2>3, <2>4, <2>6 DEF After, Acquired
  <2>7. CASE at = "recheck"
    BY <2>1, <2>2, <2>3, <2>4, <2>7 DEF After, Acquired
  <2>8. CASE at = "playback"
    BY <2>1, <2>2, <2>3, <2>4, <2>8 DEF After, Acquired
  <2>9. QED
    BY <2>5, <2>6, <2>7, <2>8
<1>2. ASSUME NEW at \in OpenSteps, OpenFails(at) PROVE OpenInv'
  <2>1. opening = at /\ at # "sink" /\ opening' = "failed" /\ daemon' = daemon /\ created' = created
    BY <1>2 DEF OpenFails
  <2>2. held' = held \ ReleasedAt(at)
    BY <1>2 DEF OpenFails
  <2>3. daemon \notin {"running", "stopped"}
    BY <2>1
  <2>4. held' = {}
    BY <2>1, <2>2, <2>3 DEF ReleasedAt
  <2>5. QED
    BY <2>1, <2>3, <2>4
<1>3. CASE SinkMissing
  BY <1>3 DEF SinkMissing
<1>4. CASE PrimePanics
  BY <1>4 DEF PrimePanics
<1>5. QED
  BY <1>1, <1>2, <1>3, <1>4 DEF Opener

\* So do the daemon's goroutine and whoever writes and reads.
LEMMA OthersKeepHeld ==
  ASSUME OpenInv, [OutputNext]_outputVars, ~Opener
  PROVE  OpenInv'
<1> USE DEF OpenInv, HeldAt, OpenSteps, openVars
<1>1. CASE TakeResult
  BY <1>1 DEF TakeResult
<1>2. CASE GiveUp
  BY <1>2 DEF GiveUp
<1>3. CASE Close
  <2>1. opening = "ready" /\ UNCHANGED <<opening, created>> /\ daemon' = "stopped"
    BY <1>3 DEF Close
  <2>2. held \subseteq {"file", "client"} \cup IF created THEN {"module"} ELSE {}
    BY <1>3, <2>1 DEF Close
  <2>3. held' = {}
    BY <1>3, <2>2 DEF Close, AfterClose
  <2>4. QED
    BY <2>1, <2>3
<1>4. CASE WriteVideo \/ WritePCM \/ StreamFails \/ PublishHealth
  BY <1>4 DEF WriteVideo, WritePCM, StreamFails, PublishHealth
<1>5. ASSUME NEW n \in 1 .. MaxRead, ReadSamples(n) PROVE OpenInv'
  BY <1>5 DEF ReadSamples
<1>6. CASE UNCHANGED outputVars
  BY <1>6 DEF outputVars
<1>7. QED
  BY <1>1, <1>2, <1>3, <1>4, <1>5, <1>6 DEF OutputNext

\* A frame that is written has the driver's size.
LEMMA WritesHaveDriverSize ==
  ASSUME pix \in PixFormats, UsablePix(pix)
  PROVE  ConvertedSize(pix) = pix.sizeimage
<1>1. pix.width \in Nat /\ pix.height \in Nat /\ pix.sizeimage \in Nat \ {0}
  BY OutputAssumption DEF OutputAssumption, UsablePix
<1>2. QED
  BY <1>1, ConvertedHasDriverSize

\* Every step keeps the driver's format usable once it is known.
LEMMA StepKeepsPix ==
  ASSUME OpenInv, PixInv, [OutputNext]_outputVars
  PROVE  PixInv'
<1> USE DEF OpenInv, PixInv, OpenSteps, BeforeFormat, openVars, healthVars
<1>1. ASSUME NEW at \in OpenSteps, OpenStep(at) PROVE PixInv'
  <2>1. /\ opening = at /\ opening' = After[at] /\ (at = "prime" => ~Overruns(pix))
        /\ IF at = "set" THEN pix' \in { p \in PixFormats : UsablePix(p) } ELSE pix' = pix
        /\ wrote' = IF at = "prime" THEN ConvertedSize(pix) ELSE wrote
    BY <1>1 DEF OpenStep
  <2>2. CASE at \in {"find", "open", "query", "formats"}
    BY <2>1, <2>2 DEF After
  <2>3. CASE at = "set"
    <3>1. /\ pix' \in PixFormats /\ UsablePix(pix') /\ wrote' = 0 /\ opening' = "prime"
      BY <2>1, <2>3 DEF After, UsablePix
    <3>2. QED
      BY <3>1
  <2>4. CASE at = "prime"
    BY <2>1, <2>4, WritesHaveDriverSize DEF After
  <2>5. CASE at \in {"refresh", "client", "sink", "load", "recheck", "playback"}
    BY <2>1, <2>5 DEF After
  <2>6. QED
    BY <2>2, <2>3, <2>4, <2>5
<1>2. ASSUME NEW at \in OpenSteps, OpenFails(at) PROVE PixInv'
  BY <1>2 DEF OpenFails
<1>3. CASE SinkMissing
  BY <1>3 DEF SinkMissing
<1>4. CASE PrimePanics
  BY <1>4 DEF PrimePanics
<1>5. CASE TakeResult \/ GiveUp \/ WritePCM \/ StreamFails \/ PublishHealth
  BY <1>5 DEF TakeResult, GiveUp, WritePCM, StreamFails, PublishHealth
<1>6. CASE Close
  BY <1>6 DEF Close
<1>7. CASE WriteVideo
  <2>1. /\ opening = "ready" /\ UNCHANGED <<opening, pix>>
        /\ pix \in PixFormats /\ UsablePix(pix) /\ wrote \in {0, pix.sizeimage}
        /\ ~Overruns(pix)
    BY <1>7 DEF WriteVideo, Healthy, Usable
  <2>2. wrote' \in {wrote, ConvertedSize(pix)}
    BY <1>7 DEF WriteVideo
  <2>3. QED
    BY <2>1, <2>2, WritesHaveDriverSize
<1>8. ASSUME NEW n \in 1 .. MaxRead, ReadSamples(n) PROVE PixInv'
  BY <1>8 DEF ReadSamples
<1>9. CASE UNCHANGED outputVars
  BY <1>9 DEF outputVars
<1>10. QED
  BY <1>1, <1>2, <1>3, <1>4, <1>5, <1>6, <1>7, <1>8, <1>9 DEF OutputNext, Opener

\* The account of what is held and the driver's format hold of every behaviour.
THEOREM OutputInvariance == OutputSpec => [](OpenInv /\ PixInv)
<1>1. OpenInv /\ PixInv /\ [OutputNext]_outputVars => OpenInv' /\ PixInv'
  BY OpenerKeepsHeld, OthersKeepHeld, StepKeepsPix
<1>2. QED
  BY <1>1, OutputInvInit, PTL DEF OutputSpec

\* Nothing that was opened is left over, whichever step fails (output_linux.go:38-72;
\* v4l2.go:104-145; pulse.go:70-131, 149-161), but for an opener that was given up.
THEOREM NothingLeftOver == OutputSpec => []OutputOwned
<1>1. OpenInv => OutputOwned
  <2> SUFFICES ASSUME OpenInv, held # {} PROVE OutputOwned
    BY DEF OutputOwned
  <2>1. opening \in OpenSteps \/ (opening = "ready" /\ daemon # "stopped")
    BY DEF OpenInv, HeldAt, OpenSteps
  <2>2. QED
    BY <2>1 DEF OutputOwned, OpenInv
<1>2. QED
  BY <1>1, OutputInvariance, PTL

\* Every pixel of a frame of a usable format is read inside the composite.
LEMMA UsableFormatFits ==
  ASSUME NEW p \in PixFormats, UsablePix(p), NEW x \in 0 .. p.width - 1, NEW y \in 0 .. p.height - 1
  PROVE  ScaledOffset(x, y, p.width, p.height, Composite.width, Composite.height)
           \in 0 .. RgbaSize(Composite.width, Composite.height) - 4
<1> DEFINE w == p.width
           h == p.height
           cw == Composite.width
           ch == Composite.height
           at == ScaledOffset(x, y, w, h, cw, ch)
<1>1. w \in Nat \ {0} /\ h \in Nat \ {0} /\ cw \in Nat \ {0} /\ ch \in Nat \ {0}
  BY OutputAssumption DEF OutputAssumption, UsablePix
<1> HIDE DEF w, h, cw, ch
<1>2. x \in 0 .. w - 1 /\ y \in 0 .. h - 1
  BY DEF w, h
<1>3. at >= 0 /\ at + 3 < RgbaSize(cw, ch)
  BY <1>1, <1>2, ScalingStaysInSource
<1>4. at \in Int
  <2>1. Scaled(x, w, cw) \in 0 .. cw - 1 /\ Scaled(y, h, ch) \in 0 .. ch - 1
    BY <1>1, <1>2, ScaledInRange
  <2>2. QED
    BY <1>1, <2>1, PixelInPicture DEF ScaledOffset, RgbaOffset
<1>5. RgbaSize(cw, ch) \in Int
  BY <1>1 DEF RgbaSize
<1>6. at \in 0 .. RgbaSize(cw, ch) - 4
  BY <1>3, <1>4, <1>5
<1>7. QED
  BY <1>6 DEF at, w, h, cw, ch

\* Whatever format, size and frame length the driver answers with, a frame that is written
\* is as long as it set and was made inside its buffers, or else the format is YUYV with an
\* odd width, and the daemon panicked before it wrote one (v4l2.go:196-199, 225-248,
\* 263-347).
THEOREM FramesAlwaysFit == OutputSpec => []FramesFit
<1>1. PixInv => FramesFit
  <2>1. CASE pix = NoPix /\ wrote = 0 /\ opening # "panicked"
    BY <2>1 DEF NoPix, FramesFit
  <2>2. CASE pix \in PixFormats /\ UsablePix(pix) /\ wrote \in {0, pix.sizeimage}
    <3>1. Overruns(pix) <=> OddYuyv(pix)
      <4>1. pix.width \in Nat \ {0} /\ pix.height \in Nat \ {0}
        BY <2>2, OutputAssumption DEF OutputAssumption, UsablePix
      <4>2. QED
        BY <4>1, OverrunsExactlyOdd
    <3>2. PixInv => (wrote # 0 => ~Overruns(pix)) /\ (opening = "panicked" => Overruns(pix) /\ wrote = 0)
      BY DEF PixInv, BeforeFormat
    <3>3. QED
      BY <2>2, <3>1, <3>2, UsableFormatFits DEF FramesFit
  <2>3. QED
    BY <2>1, <2>2 DEF PixInv, BeforeFormat
<1>2. QED
  BY <1>1, OutputInvariance, PTL

-----------------------------------------------------------------------------
(* The queue of samples.                                                    *)

QueueInv == queue \in Seq(Nat) /\ pushed \in 0 .. MaxQueued /\ Len(queue) <= pushed

\* The audio goroutine pushes behind what is queued.
LEMMA PushKeepsQueue ==
  ASSUME QueueInv, WritePCM
  PROVE  QueueInv' /\ (SampleQueue!Enqueue(FrameSize) \/ UNCHANGED SampleQueue!vars)
<1> USE OutputAssumption DEF OutputAssumption
<1>1. CASE closed
  BY <1>1 DEF WritePCM, QueueInv, SampleQueue!vars
<1>2. CASE ~closed
  <2> DEFINE run == [i \in 1 .. FrameSize |-> pushed + i - 1]
  <2>1. /\ queue' = queue \o run /\ pushed' = pushed + FrameSize /\ UNCHANGED played
        /\ pushed + FrameSize <= MaxQueued
    BY <1>2 DEF WritePCM
  <2>2. run \in Seq(Nat) /\ Len(run) = FrameSize
    BY DEF QueueInv
  <2>3. SampleQueue!Enqueue(FrameSize)
    BY <2>1 DEF SampleQueue!Enqueue
  <2> HIDE DEF run
  <2>4. QueueInv'
    BY <2>1, <2>2 DEF QueueInv
  <2>5. QED
    BY <2>3, <2>4
<1>3. QED
  BY <1>1, <1>2 DEF WritePCM

\* The client takes a run from the front.
LEMMA ReadKeepsQueue ==
  ASSUME QueueInv, NEW n \in 1 .. MaxRead, ReadSamples(n)
  PROVE  QueueInv' /\ \E k \in 1 .. Len(queue) : SampleQueue!Dequeue(k)
<1> USE OutputAssumption DEF OutputAssumption
<1> DEFINE k == Shorter(n, Len(queue))
<1>1. queue \in Seq(Nat) /\ queue # << >> /\ Len(queue) \in Nat /\ Len(queue) # 0
  BY DEF QueueInv, ReadSamples
<1>2. k \in 1 .. Len(queue)
  BY <1>1 DEF Shorter
<1>3. /\ played' = SubSeq(queue, 1, k) /\ queue' = SubSeq(queue, k + 1, Len(queue))
      /\ UNCHANGED pushed
  BY DEF ReadSamples, Remaining
<1> HIDE DEF k
<1>4. SampleQueue!Dequeue(k)
  BY <1>3 DEF SampleQueue!Dequeue
<1>5. queue' \in Seq(Nat) /\ Len(queue') <= Len(queue)
  BY <1>1, <1>2, <1>3
<1>6. QueueInv'
  BY <1>3, <1>5 DEF QueueInv
<1>7. QED
  BY <1>2, <1>4, <1>6

\* Every step keeps the queue and is a step of the abstract one.
LEMMA QueueStep ==
  QueueInv /\ [OutputNext]_outputVars => QueueInv' /\ [SampleQueue!Next]_(SampleQueue!vars)
<1> SUFFICES ASSUME QueueInv, [OutputNext]_outputVars
             PROVE  QueueInv' /\ [SampleQueue!Next]_(SampleQueue!vars)
  OBVIOUS
<1>1. CASE WritePCM
  <2>1. QueueInv' /\ (SampleQueue!Enqueue(FrameSize) \/ UNCHANGED SampleQueue!vars)
    BY <1>1, PushKeepsQueue
  <2>2. CASE closed
    <3>1. UNCHANGED SampleQueue!vars
      BY <1>1, <2>2 DEF WritePCM, SampleQueue!vars
    <3>2. QED
      BY <2>1, <3>1
  <2>3. CASE ~closed
    <3>1. FrameSize \in 1 .. MaxQueued - Len(queue)
      BY <1>1, <2>3, OutputAssumption DEF WritePCM, OutputAssumption, QueueInv
    <3>2. QED
      BY <2>1, <3>1 DEF SampleQueue!Next
  <2>4. QED
    BY <2>2, <2>3 DEF WritePCM
<1>2. ASSUME NEW n \in 1 .. MaxRead, ReadSamples(n)
      PROVE  QueueInv' /\ SampleQueue!Next
  BY <1>2, ReadKeepsQueue DEF SampleQueue!Next
<1>3. CASE UNCHANGED <<queue, pushed, played>>
  BY <1>3 DEF QueueInv, SampleQueue!vars
<1>4. CASE Opener
  <2>1. UNCHANGED <<queue, pushed, played>>
    BY <1>4 DEF Opener, OpenStep, OpenFails, SinkMissing, PrimePanics, queueVars
  <2>2. QED
    BY <1>3, <2>1
<1>5. CASE TakeResult \/ GiveUp \/ Close \/ WriteVideo \/ StreamFails \/ PublishHealth
  <2>1. UNCHANGED <<queue, pushed, played>>
    BY <1>5 DEF TakeResult, GiveUp, Close, WriteVideo, StreamFails, PublishHealth, queueVars
  <2>2. QED
    BY <1>3, <2>1
<1>6. CASE UNCHANGED outputVars
  <2>1. UNCHANGED <<queue, pushed, played>>
    BY <1>6 DEF outputVars, queueVars
  <2>2. QED
    BY <1>3, <2>1
<1>7. QED
  BY <1>1, <1>2, <1>4, <1>5, <1>6 DEF OutputNext

\* The queue is empty at the start.
LEMMA QueueInit == OutputInit => QueueInv /\ SampleQueue!Init
BY OutputAssumption DEF OutputAssumption, OutputInit, QueueInv, SampleQueue!Init

\* What the sink plays is what was written, for reads and frames of any size: the
\* output's queue implements the abstract queue (pulse.go:36-68).
THEOREM OutputImplementsFifo == OutputSpec => PlaysWhatWasWritten
BY QueueInit, QueueStep, PTL DEF OutputSpec, PlaysWhatWasWritten, SampleQueue!Spec

-----------------------------------------------------------------------------
(* Types.                                                                   *)

HealthInv ==
  /\ audioRuns \in BOOLEAN /\ closed \in BOOLEAN
  /\ videoHealthy \in BOOLEAN /\ audioHealthy \in BOOLEAN
  /\ streamError \in BOOLEAN /\ shownHealthy \in BOOLEAN

\* What is healthy, shown or closed stays a Boolean.
LEMMA HealthStep == HealthInv /\ [OutputNext]_outputVars => HealthInv'
<1> SUFFICES ASSUME HealthInv, [OutputNext]_outputVars PROVE HealthInv'
  OBVIOUS
<1> USE DEF HealthInv, openVars, healthVars, queueVars
<1>1. CASE Opener
  BY <1>1 DEF Opener, OpenStep, OpenFails, SinkMissing, PrimePanics
<1>2. CASE TakeResult \/ GiveUp \/ PublishHealth
  BY <1>2 DEF TakeResult, GiveUp, PublishHealth, ReportedHealth, Healthy, Usable
<1>3. CASE Close \/ StreamFails \/ \E n \in 1 .. MaxRead : ReadSamples(n)
  BY <1>3 DEF Close, StreamFails, ReadSamples
<1>4. CASE WriteVideo \/ WritePCM
  BY <1>4 DEF WriteVideo, WritePCM
<1>5. CASE UNCHANGED outputVars
  BY <1>5 DEF outputVars
<1>6. QED
  BY <1>1, <1>2, <1>3, <1>4, <1>5 DEF OutputNext

OutputInv == OpenInv /\ PixInv /\ QueueInv /\ HealthInv

\* Nothing is open, queued or ill at the start.
LEMMA OutputStarts == OutputInit => OutputInv
<1>1. OutputInit => HealthInv
  BY DEF OutputInit, HealthInv
<1>2. QED
  BY <1>1, OutputInvInit, QueueInit DEF OutputInv

\* Every step keeps opening, format, queue and health.
LEMMA OutputStep == OutputInv /\ [OutputNext]_outputVars => OutputInv'
BY OpenerKeepsHeld, OthersKeepHeld, StepKeepsPix, QueueStep, HealthStep DEF OutputInv

\* Then every variable has its type.
LEMMA OutputInvTypes == OutputInv => OutputTypeOK
<1> SUFFICES ASSUME OutputInv PROVE OutputTypeOK
  OBVIOUS
<1>1. held \subseteq {"file", "client", "module"}
  BY DEF OutputInv, OpenInv, HeldAt, OpenSteps
<1>2. pix \in PixFormats \cup {NoPix} /\ wrote \in Nat
  BY OutputAssumption DEF OutputAssumption, OutputInv, PixInv
<1>3. pushed \in 0 .. MaxQueued /\ Len(queue) <= pushed
  BY DEF OutputInv, QueueInv
<1>4. QED
  BY <1>1, <1>2, <1>3 DEF OutputTypeOK, OutputInv, OpenInv, HealthInv

\* Every variable of the virtual output keeps its type, for every size of frame and read.
THEOREM OutputTypeCorrect == OutputSpec => []OutputTypeOK
BY OutputStarts, OutputStep, OutputInvTypes, PTL DEF OutputSpec

-----------------------------------------------------------------------------
(* What FailureShown rests on.                                              *)

\* A half of the output that failed never comes back, ...
FailureLasts == daemon = "running" /\ ~Healthy /\ daemon' = "running" => ~Healthy'

\* ... and what is published of it from then on is that it failed.
FailurePublished == daemon = "running" /\ ~Healthy /\ PublishHealth => ~shownHealthy'

\* A failure of either half is for good while the daemon runs, whatever the goroutines
\* go on to write: no later write makes the output look healthy again before the failure
\* is published, so one publication that is to come is enough (v4l2.go:225-248;
\* pulse.go:133-147; bridge.go:122-125).
THEOREM FailuresLast == OutputSpec => [][FailureLasts /\ FailurePublished]_outputVars
<1>1. [OutputNext]_outputVars => [FailureLasts /\ FailurePublished]_outputVars
  <2> SUFFICES ASSUME OutputNext, daemon = "running", ~Healthy
               PROVE  /\ daemon' = "running" => ~Healthy'
                      /\ PublishHealth => ~shownHealthy'
    BY DEF FailureLasts, FailurePublished
  <2>1. ~(videoHealthy /\ audioHealthy /\ ~streamError)
    BY DEF Healthy, Usable
  <2>2. PublishHealth => ~shownHealthy'
    BY DEF PublishHealth, ReportedHealth
  <2>3. CASE UNCHANGED <<videoHealthy, audioHealthy, streamError>>
    BY <2>1, <2>2, <2>3 DEF Healthy
  <2>4. CASE WritePCM
    BY <2>1, <2>2, <2>4 DEF WritePCM, Healthy
  <2>5. CASE StreamFails
    BY <2>2, <2>5 DEF StreamFails, Healthy
  <2>6. ~WriteVideo
    BY DEF WriteVideo
  <2>7. QED
    BY <2>2, <2>3, <2>4, <2>5, <2>6
       DEF OutputNext, Opener, OpenStep, OpenFails, SinkMissing, PrimePanics, TakeResult, GiveUp, Close,
           ReadSamples, PublishHealth, healthVars
<1>2. QED
  BY <1>1, PTL DEF OutputSpec
=============================================================================
