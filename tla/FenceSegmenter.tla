--------------------------- MODULE FenceSegmenter ---------------------------
(***************************************************************************)
(* The second tier behind the ladder (agent_fence_segmenter.py): a model   *)
(* partitions the lines of an ambiguous reply into prose, code and drop    *)
(* ranges, and the reply is rebuilt from its own lines.  Here are the      *)
(* repair of the partition, the gates it must pass and the rebuilding.     *)
(* A segment covers the lines from .. to - 1.                              *)
(***************************************************************************)
EXTENDS FenceRepair

Segment(type, from, to, lang) ==
    [type |-> type, from |-> from, to |-> to, lang |-> lang]
Drop(from, to) == Segment("drop", from, to, "none")

Lines(segment, lines) == SubSeq(lines, segment.from, segment.to - 1)
OfType(segments, type) == SelectSeq(segments, LAMBDA s : s.type = type)

Noise(lines, from, to) ==
    /\ from < to
    /\ \A i \in from .. to - 1 : IsBlank(lines[i]) \/ LineFenceLike(lines[i])

\* A code range that does not parse is cut at its fence lines.
CutAtFences(s, lines) ==
    FlattenSeq([k \in 1 .. s.to - s.from |->
        LET i == s.from + k - 1
            piece(from) == Segment("code", from, i + 1, s.lang)
            starts == {j \in s.from .. i :
                          \A m \in j .. i : ~LineFenceLike(lines[m])}
        IN  IF LineFenceLike(lines[i]) THEN <<Drop(i, i + 1)>>
            ELSE IF i + 1 = s.to \/ LineFenceLike(lines[i + 1])
            THEN <<piece(Min(starts))>> ELSE <<>>])

\* One segment more: the gap before it, and the segment, cut if it must be.
Normalized(lines, acc, s) ==
    LET gap == Noise(lines, acc.cursor, s.from)
        code == s.type = "code" /\ 1 <= s.from /\ s.to <= Len(lines) + 1
        cut == /\ code /\ ~Parses(Lines(s, lines))
               /\ \E i \in s.from .. s.to - 1 : LineFenceLike(lines[i])
    IN  [out |-> acc.out
                 \o (IF gap THEN <<Drop(acc.cursor, s.from)>> ELSE <<>>)
                 \o (IF cut THEN CutAtFences(s, lines) ELSE <<s>>),
         cursor |-> Max({acc.cursor, s.to} \cup IF gap THEN {s.from} ELSE {})]

\* normalize_segments: gaps of noise become drops, code is cut at its fences.
NormalizeSegments(segments, lines) ==
    LET end == Along(LAMBDA acc, s : Normalized(lines, acc, s),
                     [out |-> <<>>, cursor |-> 1], segments)
        n == Len(lines)
    IN  IF Noise(lines, end.cursor, n + 1)
        THEN Append(end.out, Drop(end.cursor, n + 1)) ELSE end.out

\* G1, gate_partition: the ranges tile the lines.
GatePartition(segments, n) ==
    /\ \A k \in DOMAIN segments : segments[k].from < segments[k].to
    /\ \A k \in DOMAIN segments :
          segments[k].from = IF k = 1 THEN 1 ELSE segments[k - 1].to
    /\ (IF segments = <<>> THEN 1 ELSE Last(segments).to) = n + 1

\* A bug for the checks: a drop range may hold anything.
DropsAnything(segments, lines) ==
    \A k \in DOMAIN segments :
    \A i \in segments[k].from .. segments[k].to - 1 :
        /\ segments[k].type = "prose" => ~LineFenceLike(lines[i])
        /\ segments[k].type = "code" => ~IsFence(lines[i], ActiveStyle)

\* G2, gate_drop_legality.
GateDropLegality(segments, lines) ==
    \A k \in DOMAIN segments :
    \A i \in segments[k].from .. segments[k].to - 1 :
        /\ segments[k].type = "drop" => IsBlank(lines[i]) \/ LineFenceLike(lines[i])
        /\ segments[k].type = "prose" => ~LineFenceLike(lines[i])
        /\ segments[k].type = "code" => ~IsFence(lines[i], ActiveStyle)

\* _sh_witness: a shell opener that a shell closer ends, or the last fence.
ShWitness(lines) ==
    \E i \in DOMAIN lines :
        /\ lines[i] = Open(ActiveStyle, "bash")
        /\ \/ \E j \in i + 1 .. Len(lines) :
                 /\ IsCloser(lines[j], ActiveStyle)
                 /\ lines[j].lang = Close(ActiveStyle, "bash").lang
           \/ \A j \in i + 1 .. Len(lines) : ~LineFenceLike(lines[j])

\* A bug for the checks: the gate is gone.
AnyShell(segments, lines) == TRUE

\* G2b, gate_bash_witness.
GateBashWitness(segments, lines) ==
    (\E k \in DOMAIN segments : segments[k].lang = "bash") => ShWitness(lines)

\* A blank line between what is there and what comes.
Sep(out) == IF out # <<>> /\ Last(out) # Blank THEN Append(out, Blank) ELSE out

Assembled(lines, acc, s) ==
    CASE s.type = "drop" -> acc
      [] s.type = "prose" ->
           [out |-> (IF acc.prev = "code" THEN Sep(acc.out) ELSE acc.out)
                    \o Lines(s, lines), prev |-> "prose"]
      [] s.type = "code" ->
           [out |-> Sep(acc.out) \o <<Open(ActiveStyle, s.lang)>>
                    \o Lines(s, lines) \o <<Close(ActiveStyle, s.lang)>>,
            prev |-> "code"]

\* assemble: the original lines, a blank line before code and after it.
Assemble(segments, lines) ==
    Along(LAMBDA acc, s : Assembled(lines, acc, s),
          [out |-> <<>>, prev |-> "none"], segments).out

\* G3, gate_assembly_proof: what was assembled reads back as the code ranges,
\* line for line, and the ladder has no doubt about it.
GateAssemblyProof(assembled, segments, lines) ==
    LET code == OfType(segments, "code")
        stripped == StripEnvelopes(assembled)
        scan == ScanStyle(stripped, ActiveStyle)
        accepted == Good(scan.blocks)
    IN  /\ accepted # <<>> /\ ~scan.unclosed
        /\ Len(accepted) = Len(code)
        /\ \A k \in DOMAIN code : /\ accepted[k].body = Lines(code[k], lines)
                                  /\ accepted[k].lang = code[k].lang
        /\ RepairCore(stripped).verdict # "ambiguous"

Gates(segments, lines) ==
    /\ GatePartition(segments, Len(lines))
    /\ GateDropLegality(segments, lines)
    /\ GateBashWitness(segments, lines)

AllProse(segments) == \A k \in DOMAIN segments : segments[k].type = "prose"

\* What one answer of the fixer comes to: the rebuilt text, "prose", or "retry".
Judged(segments, assembled, lines) ==
    IF ~Gates(segments, lines) THEN [outcome |-> "retry", text |-> lines]
    ELSE IF AllProse(segments) THEN [outcome |-> "prose", text |-> lines]
    ELSE IF ~GateAssemblyProof(assembled, segments, lines)
    THEN [outcome |-> "retry", text |-> lines]
    ELSE [outcome |-> "applied", text |-> StripEnvelopes(assembled)]

Answered(answer, lines) ==
    LET segments == NormalizeSegments(answer, lines)
    IN  Judged(segments, Assemble(segments, lines), lines)
=============================================================================
