------------------------------- MODULE Ladder -------------------------------
(***************************************************************************)
(* The ladder planner, server/src/worker/ladder.ts, h264LevelFor of        *)
(* codecs.ts, and the watch of a run (runner.ts) that probes the source    *)
(* again and plans anew when sourceUpgraded says so.                       *)
(*                                                                         *)
(* Frame rates are integers in a source and pairs <<n, d>> in a rendition  *)
(* (the source's rate divided).  Bitrates, labels and codec strings are    *)
(* left out.  A rendition's directory is <<prefix, short side, rate>>.     *)
(***************************************************************************)
EXTENDS Integers, Sequences, FiniteSets

CONSTANTS
  Sources,   \* what ffprobe may find
  Rungs      \* short sides of the configured rungs

LadderAssumption ==
  /\ \A s \in Sources :
       /\ s.w \in Nat \ {0} /\ s.h \in Nat \ {0} /\ s.fps \in Nat \ {0}
       /\ DOMAIN s.extra = 1..Len(s.extra) /\ s.track \in 0..Len(s.extra)
       /\ \A i \in DOMAIN s.extra :
            LET t == s.extra[i]
            IN t.w \in Nat \ {0} /\ t.h \in Nat \ {0} /\ t.track \in 0..Len(s.extra)
  /\ Rungs \subseteq Nat \ {0}

VARIABLES
  mode,      \* the mode of the run
  planned,   \* the source the ladder was planned for
  source     \* the source as it is now

vars == <<mode, planned, source>>

Modes == {"abr", "passthrough", "degraded"}

PASSTHROUGH_CODECS == {"H264", "H265", "AV1"}
MAX_ENCODE_SHORT   == 1080
DEGRADED_MAX_SHORT == 480

Smaller(a, b) == IF a < b THEN a ELSE b
Short(t)      == Smaller(t.w, t.h)
Long(t)       == IF t.w < t.h THEN t.h ELSE t.w
Copyable(t)   == t.codec \in PASSTHROUGH_CODECS

-----------------------------------------------------------------------------
(* Helpers *)

\* The least divisor that brings the rate under the cap (and half a frame).
cappedFps(fps, cap) ==
  <<fps, CHOOSE d \in 1..fps : /\ 2 * fps <= (2 * cap + 1) * d
                               /\ \A e \in 1..(d - 1) : 2 * fps > (2 * cap + 1) * e>>

\* Math.round(p / q / 2) * 2
even(p, q) == 2 * ((p + q) \div (2 * q))

\* The rate is part of the name above 31 frames per second.
renditionName(short, fps) ==
  <<short, IF fps[1] > 31 * fps[2] THEN (2 * fps[1] + fps[2]) \div (2 * fps[2]) ELSE 0>>

dimensions(src, short) ==
  LET long == even(short * Long(src), Short(src))
  IN IF src.w >= src.h THEN <<long, short>> ELSE <<short, long>>

h264LevelFor(w, h, fps) ==
  LET fast == fps[1] > 30 * fps[2] IN
  CASE w * h <= 854 * 480                            -> IF fast THEN 31 ELSE 30
    [] w * h > 854 * 480 /\ w * h <= 1280 * 720      -> IF fast THEN 32 ELSE 31
    [] w * h > 1280 * 720 /\ w * h <= 1920 * 1088    -> IF fast THEN 42 ELSE 40
    [] OTHER                                         -> IF fast THEN 51 ELSE 50

-----------------------------------------------------------------------------
(* planLadder *)

Copy(t, dir, track) == [dir |-> dir, kind |-> "copy", codec |-> t.codec, w |-> t.w,
                        h |-> t.h, fps |-> <<t.fps, 1>>, track |-> track]

\* The source itself; more tracks of it, the first of every size.
SourceCopy(src) ==
  IF Copyable(src) THEN {Copy(src, <<"source">>, src.track)} ELSE {}

NewSizes(src) ==
  {i \in DOMAIN src.extra :
     LET short == Short(src.extra[i]) IN
     /\ Copyable(src.extra[i])
     /\ Copyable(src) => short # Short(src)
     /\ \A k \in 1..(i - 1) : Copyable(src.extra[k]) => Short(src.extra[k]) # short}

ExtraCopies(src) ==
  {LET t == src.extra[i]
   IN Copy(t, <<"obs">> \o renditionName(Short(t), <<t.fps, 1>>), t.track) :
     i \in NewSizes(src)}

Copies(src) == SourceCopy(src) \cup ExtraCopies(src)

\* Mutants: every copy counts as playable everywhere; a source that cannot be
\* copied is forgotten.
AnyCopy(src)  == ~ Copyable(src)
CopyOnly(src) == Copyable(src) /\ src.codec # "H264"
NeedsH264(src) == ~ Copyable(src) \/ src.codec # "H264"

Below(r, src) == r < Short(src)

EncodeShorts(src, m) ==
  LET top == Smaller(Short(src), MAX_ENCODE_SHORT) IN
  CASE m = "abr" ->
         {r \in Rungs : Below(r, src) /\ r <= MAX_ENCODE_SHORT}
           \cup (IF NeedsH264(src) THEN {top} ELSE {})
    [] m = "degraded" ->
         IF NeedsH264(src) THEN {Smaller(Short(src), DEGRADED_MAX_SHORT)} ELSE {}
    [] m = "passthrough" -> IF Copyable(src) THEN {} ELSE {top}

FpsCap(short) == IF short <= 480 THEN 30 ELSE 60

Encode(src, short) ==
  LET fps == cappedFps(src.fps, FpsCap(short))
      dim == dimensions(src, short)
  IN [dir |-> renditionName(short, fps), kind |-> "encode", codec |-> "H264",
      w |-> dim[1], h |-> dim[2], fps |-> fps, level |-> h264LevelFor(dim[1], dim[2], fps)]

\* "A rung the streamer already sends in H.264 needs no server-side encode."
ProvidedH264(src) == {Short(v) : v \in {c \in Copies(src) : c.codec = "H264"}}

Encodes(src, m) ==
  {Encode(src, short) : short \in EncodeShorts(src, m) \ ProvidedH264(src)}

Variants(src, m) == Copies(src) \cup Encodes(src, m)

\* "Prefer a universally decodable H.264 rendition close to 720p."
Distance(v) == IF Short(v) < 720 THEN 720 - Short(v) ELSE Short(v) - 720
Start(src, m) ==
  LET h264 == {v \in Variants(src, m) : v.codec = "H264"}
      pool == IF h264 # {} THEN h264 ELSE Variants(src, m)
  IN CHOOSE v \in pool : \A u \in pool : Distance(v) <= Distance(u)

-----------------------------------------------------------------------------
(* The watch: probe, and plan anew if the source got better *)

TracksChanged(was, now) == Len(now.extra) # Len(was.extra)

sourceUpgraded(was, now) ==
  \/ now.codec # was.codec
  \/ TracksChanged(was, now)
  \/ now.audio /\ ~ was.audio
  \/ 5 * Short(now) > 6 * Short(was)

Init ==
  /\ mode \in Modes /\ source \in Sources
  /\ planned = source

\* The run is released at once and the next one plans for what it finds.
Probe ==
  /\ source' \in Sources
  /\ planned' = IF sourceUpgraded(planned, source') THEN source' ELSE planned
  /\ UNCHANGED mode

Next == Probe

Spec == Init /\ [][Next]_vars

-----------------------------------------------------------------------------
(* Properties *)

Offered == Variants(planned, mode)
Encoded == Encodes(planned, mode)

TypeOK ==
  /\ mode \in Modes /\ planned \in Sources /\ source \in Sources
  /\ Offered # {}

\* "H.264 level that comfortably fits a rendition we encode" (codecs.ts:81): the
\* macroblocks per frame and per second of Table A-1 of the standard; except that
\* 854x480 at 30 frames exceeds the rate of level 3.0, which it is given.
Limits == [l \in {30, 31, 32, 40, 42, 50, 51} |->
  CASE l = 30 -> <<1620, 40500>>    [] l = 31 -> <<3600, 108000>>
    [] l = 32 -> <<5120, 216000>>   [] l = 40 -> <<8192, 245760>>
    [] l = 42 -> <<8704, 522240>>   [] l = 50 -> <<22080, 589824>>
    [] l = 51 -> <<36864, 983040>>]

Macroblocks(v) == ((v.w + 15) \div 16) * ((v.h + 15) \div 16)

LevelHolds(v) ==
  /\ Macroblocks(v) <= Limits[v.level][1]
  /\ v.level # 30 => Macroblocks(v) * v.fps[1] <= Limits[v.level][2] * v.fps[2]

LevelFits == \A v \in Encoded : LevelHolds(v)

\* Unless the streamer chose pass-through, players start with an H.264 rendition.
StartsWithH264 == mode # "passthrough" => Start(planned, mode).codec = "H264"

\* No two renditions share a directory, where they would overwrite each other.
OwnDirectories == \A u, v \in Offered : u.dir = v.dir => u = v

\* However often the source changes while a plan is kept, the tracks it copies exist, and a
\* source with audio has an audio rendition.
PlanFitsSource ==
  /\ \A v \in Copies(planned) : v.track <= Len(source.extra)
  /\ source.audio => planned.audio

\* "Every browser can still watch" (ladder.ts:13), whatever was sent: it starts with what
\* everybody can decode; what the server encodes is labelled with a level its decoder can take;
\* and a plan that is kept (ladder.ts:254) still fits what is sent by then.
EveryBrowserCanWatch == StartsWithH264 /\ LevelFits /\ OwnDirectories /\ PlanFitsSource
=============================================================================
