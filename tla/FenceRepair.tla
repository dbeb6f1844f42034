---------------------------- MODULE FenceRepair ----------------------------
(***************************************************************************)
(* What the agent does with the fences of a reply before it stores and     *)
(* runs it: the shared depth counter and the strict extractor of           *)
(* agent_repl_parse.py, and the deterministic repair of                    *)
(* agent_fence_repair.py (glue splitting, the ladder of fence styles, the  *)
(* protocol tags, envelope stripping, the fixed point over passes).        *)
(* A reply is a sequence of lines.  A line is what the code's predicates   *)
(* tell apart: a fence of a style, a protocol or envelope tag, a fence     *)
(* glued to something else, or a line of text by what Python makes of it.  *)
(***************************************************************************)
EXTENDS Integers, Sequences, FiniteSets, SequencesExt, FiniteSetsExt

CONSTANT ActiveStyle        \* the configured fence style

Styles == {"std", "quad", "html", "at"}
ASSUME ActiveStyleAssumption == ActiveStyle \in Styles

\* SequencesExt!FoldLeft as a function of the position, which TLC evaluates in
\* one pass.
Along(Step(_, _), base, seq) ==
    LET upTo[i \in 0 .. Len(seq)] ==
          IF i = 0 THEN base ELSE Step(upTo[i - 1], seq[i])
    IN  upTo[Len(seq)]

\* The elements at the positions of which, in order.
Only(list, which) ==
    FlattenSeq([i \in DOMAIN list |-> IF i \in which THEN <<list[i]>> ELSE <<>>])

Positions(list) == [i \in DOMAIN list |-> i]

(***************************************************************************)
(* Lines.                                                                  *)
(***************************************************************************)
Open(style, lang) == [kind |-> "open", style |-> style, lang |-> lang]

\* std and quad have one closing token for both languages.
Close(style, lang) ==
    [kind |-> "close", style |-> style,
     lang |-> IF style \in {"std", "quad"} THEN "python" ELSE lang,
     tail |-> FALSE]

\* Text behind the token does not stop it from closing.
Trailing(close) == [close EXCEPT !.tail = TRUE]

Tag(end, name, lang) == [kind |-> "tag", end |-> end, name |-> name, lang |-> lang]
Envelope(end) == [kind |-> "env", end |-> end]    \* invoke, antml:...
Fused(lang) == [kind |-> "fused", lang |-> lang]  \* a tag, then the active opener
Bare(lang, rest) ==                               \* the active opener, then code
    [kind |-> "bare", lang |-> lang, rest |-> rest]
Text(is) == [kind |-> "text", is |-> is]  \* code, name, prose, quote or blank

Blank == Text("blank")
IsBlank(l) == l = Blank

\* Every line there is.
Langs == {"python", "bash"}
Texts == {Text(is) : is \in {"code", "name", "prose", "quote", "blank"}}
Line  == [kind : {"open"}, style : Styles, lang : Langs]
         \cup [kind : {"close"}, style : Styles, lang : Langs, tail : BOOLEAN]
         \cup [kind : {"tag"}, end : {"open", "close"}, name : STRING, lang : Langs]
         \cup [kind : {"env"}, end : {"open", "close"}]
         \cup [kind : {"fused"}, lang : Langs]
         \cup [kind : {"bare"}, lang : Langs, rest : Texts]
         \cup Texts

\* _opener_of and _closer_of: the token alone, or at a boundary, in column 0.
IsOpener(l, style) == l.kind = "open" /\ l.style = style
IsCloser(l, style) == l.kind = "close" /\ l.style = style
IsFence(l, style) == IsOpener(l, style) \/ IsCloser(l, style)

\* _proto_kind.
OpensTag(l) == l.kind = "tag" /\ l.end = "open"
ClosesTag(l) == l.kind = "tag" /\ l.end = "close"

\* _env_open and _env_close: every protocol tag is an envelope tag as well.
IsEnvelope(l, end) == l.kind \in {"tag", "env"} /\ l.end = end

\* fence_like, for one line; a glued fence is not one.
LineFenceLike(l) == l.kind \in {"open", "close", "tag", "env"}
FenceLike(lines) == \E i \in DOMAIN lines : LineFenceLike(lines[i])

ForeignFence(l) == l.kind \in {"open", "close"} /\ l.style # ActiveStyle

Accepted(body) == \E i \in DOMAIN body : ~IsBlank(body[i])

\* ast.parse of a body: a triple quote opens a string that the next one ends,
\* any line may stand inside a string, and outside it only code may.
Parses(body) ==
    LET Step(s, l) ==
          [string |-> IF l = Text("quote") THEN ~s.string ELSE s.string,
           ok |-> s.ok /\ (s.string \/ l \in {Text("quote"), Text("code"),
                                              Text("name"), Blank})]
        end == Along(Step, [string |-> FALSE, ok |-> TRUE], body)
    IN  end.ok /\ ~end.string

(***************************************************************************)
(* The shared depth counter and the strict extractor.                      *)
(***************************************************************************)
Block(first, last, lang, body, auto, consume) ==
    [first |-> first, last |-> last, lang |-> lang, body |-> body,
     auto |-> auto, consume |-> consume]

\* Only a block still open at the end is auto-closed.
ScanEnd(lines, end) ==
    IF end.depth = 0
    THEN [blocks |-> end.blocks, orphans |-> end.orphans, unclosed |-> FALSE]
    ELSE [blocks |-> Append(end.blocks, Block(end.start, Len(lines) + 1,
                        lines[end.start].lang,
                        SubSeq(lines, end.start + 1, Len(lines)), TRUE, FALSE)),
          orphans |-> end.orphans, unclosed |-> TRUE]

\* One counter: the line at i opens, closes, is an orphan closer or is passed over.
Counted(lines, style, s, i) ==
    CASE IsOpener(lines[i], style) ->
           [s EXCEPT !.depth = @ + 1,
                     !.start = IF s.depth = 0 THEN i ELSE @]
      [] IsCloser(lines[i], style) /\ s.depth > 1 ->
           [s EXCEPT !.depth = @ - 1]
      [] IsCloser(lines[i], style) /\ s.depth = 1 ->
           [s EXCEPT !.depth = 0,
                     !.blocks = Append(@, Block(s.start, i, lines[s.start].lang,
                        SubSeq(lines, s.start + 1, i - 1), FALSE, TRUE))]
      [] IsCloser(lines[i], style) /\ s.depth = 0 ->
           [s EXCEPT !.orphans = @ \cup {i}]
      [] OTHER -> s

NothingRead == [depth |-> 0, start |-> 0, blocks |-> <<>>, orphans |-> {}]

\* scan_style.
ScanStyle(lines, style) ==
    ScanEnd(lines, Along(LAMBDA s, i : Counted(lines, style, s, i),
                         NothingRead, Positions(lines)))

Good(blocks) == Only(blocks, {k \in DOMAIN blocks : Accepted(blocks[k].body)})

Bodies(blocks) == [i \in DOMAIN blocks |-> blocks[i].body]

\* extract_code_blocks: fully enclosed, non-empty blocks of the active style.
ExtractCodeBlocks(lines) ==
    LET blocks == ScanStyle(lines, ActiveStyle).blocks
    IN  Only(blocks, {k \in DOMAIN blocks :
                         ~blocks[k].auto /\ Accepted(blocks[k].body)})

(***************************************************************************)
(* Protocol tags: a run of opening tags, a body, the first closer.         *)
(***************************************************************************)
GroupEnd(lines, i) ==
    CHOOSE g \in i .. Len(lines) :
        /\ \A j \in i .. g : OpensTag(lines[j])
        /\ g = Len(lines) \/ ~OpensTag(lines[g + 1])

EndsBody(l) == l.kind = "tag" \/ IsCloser(l, ActiveStyle)

\* The group that starts at i: its block, if it makes one, and where to go on.
TagGroup(lines, s, i) ==
    LET n == Len(lines)
        g == GroupEnd(lines, i)
        function == \E j \in i .. g : lines[j].name = "function"
        own == IF \E j \in i .. g : lines[j].lang = "bash" THEN "bash" ELSE "python"
        lang == IF ~function /\ s.lastLang # "none" THEN s.lastLang ELSE own
        ends == {b \in g + 1 .. n : EndsBody(lines[b])}
        end == IF ends = {} THEN n + 1 ELSE Min(ends)
        closes == ends # {} /\ ~OpensTag(lines[end])
        last == IF ~closes THEN end
                ELSE CHOOSE k \in end .. n :
                        /\ \A j \in end + 1 .. k : ClosesTag(lines[j])
                        /\ k = n \/ ~ClosesTag(lines[k + 1])
        next == IF closes /\ ClosesTag(lines[last])
                          /\ lines[last].name \in {"function", "tool_call"}
                THEN "none" ELSE IF function THEN lang ELSE s.lastLang
        body == SubSeq(lines, g + 1, end - 1)
        here == IF ends # {} THEN <<Block(i, last, lang, body, FALSE, closes)>>
                ELSE IF g = i /\ lines[i].name = "tool_call" /\ Accepted(body)
                THEN <<Block(i, n + 1, lang, body, TRUE, FALSE)>>
                ELSE <<>>
    IN  [at |-> IF closes THEN last + 1 ELSE last,
         lastLang |-> next, blocks |-> s.blocks \o here]

\* scan_proto.
Grouped(lines, s, i) ==
    IF i < s.at \/ ~OpensTag(lines[i]) THEN s ELSE TagGroup(lines, s, i)

ScanProto(lines) ==
    Along(LAMBDA s, i : Grouped(lines, s, i),
          [at |-> 1, lastLang |-> "none", blocks |-> <<>>], Positions(lines)).blocks

(***************************************************************************)
(* The ladder.                                                             *)
(***************************************************************************)
\* _OTHER_ORDER without std, which is never converted to another style.
OtherOrder == <<"quad", "html", "at">>

Ladder ==
    <<ActiveStyle>> \o Only(OtherOrder, {k \in DOMAIN OtherOrder :
                                            OtherOrder[k] # ActiveStyle})

InnerFences(body) == \E i \in DOMAIN body : IsFence(body[i], ActiveStyle)

\* The blocks of a refused stage that the report names.
Unbalanced(blocks) ==
    \E i \in DOMAIN blocks : \E j \in DOMAIN blocks[i].body :
        IsOpener(blocks[i].body[j], ActiveStyle)

Refused(good) == \E i \in DOMAIN good : InnerFences(good[i].body)

\* Where the text goes on behind a block.
After(b) == IF b.consume THEN b.last + 1 ELSE b.last

\* _render: the text around the blocks verbatim, the blocks in active fences.
Render(lines, blocks) ==
    LET from(k) == IF k = 1 THEN 1 ELSE After(blocks[k - 1])
    IN  FlattenSeq([k \in DOMAIN blocks |->
            SubSeq(lines, from(k), blocks[k].first - 1)
            \o <<Open(ActiveStyle, blocks[k].lang)>> \o blocks[k].body
            \o <<Close(ActiveStyle, blocks[k].lang)>>])
        \o SubSeq(lines, from(Len(blocks) + 1), Len(lines))

RemoveAll(lines, drop) == Only(lines, DOMAIN lines \ drop)

\* _finalize: closers that the rewrite left outside every block go.
Finalize(lines) == RemoveAll(lines, ScanStyle(lines, ActiveStyle).orphans)

\* _renders_extractable: the rewrite reads back as the blocks it was made of.
RendersExtractable(lines, want) ==
    LET scan == ScanStyle(lines, ActiveStyle)
    IN  ~scan.unclosed /\ Bodies(Good(scan.blocks)) = Bodies(want)

\* A python body that hides a foreign fence and does not parse.
Smuggles(b) ==
    /\ b.lang = "python" /\ ~Parses(b.body)
    /\ \E i \in DOMAIN b.body : ForeignFence(b.body[i])

AutoCloseAmbiguous(b, style) ==
    \/ style # ActiveStyle
    \/ b.lang # "python"
    \/ ~Parses(b.body)
    \/ \E i \in DOMAIN b.body : b.body[i] = Text("name")

OddTriple(b) ==
    Cardinality({i \in DOMAIN b.body : b.body[i] = Text("quote")}) % 2 = 1

Result(text, verdict, steps) == [text |-> text, verdict |-> verdict, steps |-> steps]

Doubt(doubtful) == IF doubtful THEN "ambiguous" ELSE "ok"
Unaccepted(lines) == IF FenceLike(lines) THEN "ambiguous" ELSE "clean"

\* Whether a stage of the ladder wins, and what it then makes of the text.
Untouched(scan, good, style) ==
    /\ style = ActiveStyle /\ scan.orphans = {}
    /\ \A i \in DOMAIN good : ~good[i].auto

Wins(lines, style) ==
    LET scan == ScanStyle(lines, style)
        good == Good(scan.blocks)
    IN  /\ good # <<>> /\ ~Refused(good)
        /\ \/ Untouched(scan, good, style)
           \/ RendersExtractable(Finalize(Render(lines, good)), good)

Commit(lines, style) ==
    LET scan == ScanStyle(lines, style)
        good == Good(scan.blocks)
        rendered == Render(lines, good)
        dropped == ScanStyle(rendered, ActiveStyle).orphans # {}
        auto == \E i \in DOMAIN good : good[i].auto
        smuggled == \E i \in DOMAIN good : Smuggles(good[i])
        stranded == \E i \in DOMAIN good : OddTriple(good[i])
        steps == (IF style # ActiveStyle /\ auto THEN {"half-open-other-style"}
                  ELSE IF style # ActiveStyle THEN {"other-style-enclosed"}
                  ELSE IF auto THEN {"half-open-active"} ELSE {})
                 \cup (IF ~dropped THEN {}
                       ELSE IF stranded THEN {"closer-inside-block-suspect"}
                       ELSE {"orphan-close-dropped"})
    IN  IF Untouched(scan, good, style)
        THEN Result(lines, Doubt(smuggled), {})
        ELSE Result(Finalize(rendered),
                    Doubt(\/ smuggled \/ (dropped /\ stranded)
                          \/ \E i \in DOMAIN good :
                                good[i].auto /\ AutoCloseAmbiguous(good[i], style)),
                    steps)

\* The last stage: the protocol tags.
CommitProto(lines, proto, rendered) ==
    IF RendersExtractable(rendered, proto)
    THEN Result(rendered,
                Doubt(\E i \in DOMAIN proto : proto[i].auto \/ Smuggles(proto[i])),
                {"protocol-tags"})
    ELSE Result(lines, Unaccepted(lines), {})

NoStageWins(lines, proto) ==
    LET unbalanced ==
            \/ \E k \in DOMAIN Ladder :
                  Unbalanced(Good(ScanStyle(lines, Ladder[k]).blocks))
            \/ Unbalanced(proto)
    IN  IF proto # <<>> /\ ~Refused(proto)
        THEN CommitProto(lines, proto, Finalize(Render(lines, proto)))
        ELSE IF unbalanced THEN Result(lines, "ambiguous", {"unbalanced-block"})
        ELSE Result(lines, Unaccepted(lines), {})

RepairCore(lines) ==
    LET winners == {k \in DOMAIN Ladder : Wins(lines, Ladder[k])}
    IN  IF winners # {} THEN Commit(lines, Ladder[Min(winners)])
        ELSE NoStageWins(lines, Good(ScanProto(lines)))

(***************************************************************************)
(* Before and after the ladder: glued openers and envelopes.               *)
(***************************************************************************)
\* A bug for the checks: only the fences are protected.
ProtectsFences(lines) ==
    LET blocks == Good(ScanStyle(lines, ActiveStyle).blocks)
    IN  UNION {{blocks[i].first, blocks[i].last} : i \in DOMAIN blocks}

\* _protected_line_indices: every line of an accepted block, fences included.
Protected(lines) ==
    LET blocks == Good(ScanStyle(lines, ActiveStyle).blocks)
    IN  UNION {blocks[i].first .. blocks[i].last : i \in DOMAIN blocks}

\* A bare glue is split only if its own closer stands later in the text.
Splits(lines, i) ==
    /\ i \notin Protected(lines)
    /\ \/ lines[i].kind = "fused"
       \/ /\ lines[i].kind = "bare"
          /\ \E j \in i + 1 .. Len(lines) :
                lines[j] = Close(ActiveStyle, lines[i].lang)

FixGlueOpeners(lines) ==
    FlattenSeq([i \in DOMAIN lines |->
        IF ~Splits(lines, i) THEN <<lines[i]>>
        ELSE IF lines[i].kind = "fused" THEN <<Open(ActiveStyle, lines[i].lang)>>
        ELSE <<Open(ActiveStyle, lines[i].lang), lines[i].rest>>])

\* strip_envelopes: tags next to an accepted block, over blank lines, go, unless
\* the text would then read as other blocks.
EnvelopeLines(lines, blocks) ==
    {j \in DOMAIN lines : \E k \in DOMAIN blocks :
        \/ /\ j < blocks[k].first
           /\ IsEnvelope(lines[j], "open")
           /\ \A m \in j + 1 .. blocks[k].first - 1 :
                 IsBlank(lines[m]) \/ IsEnvelope(lines[m], "open")
        \/ /\ j > blocks[k].last
           /\ IsEnvelope(lines[j], "close")
           /\ \A m \in blocks[k].last + 1 .. j - 1 :
                 IsBlank(lines[m]) \/ IsEnvelope(lines[m], "close")}

StripEnvelopes(lines) ==
    LET blocks == Good(ScanStyle(lines, ActiveStyle).blocks)
        stripped == RemoveAll(lines, EnvelopeLines(lines, blocks))
    IN  IF Bodies(Good(ScanStyle(stripped, ActiveStyle).blocks)) = Bodies(blocks)
        THEN stripped ELSE lines

RefusalSteps == {"unbalanced-block", "closer-inside-block-suspect"}

\* _finish: a text the ladder refused to touch keeps its envelopes too.
Finish(core) ==
    LET stripped == StripEnvelopes(core.text)
    IN  IF core.steps \cap RefusalSteps # {} \/ stripped = core.text THEN core
        ELSE Result(stripped, core.verdict,
                    core.steps \cup {"protocol-envelope-stripped"})

\* The split is reported only if an opener it produced is accepted.
ReportSplit(lines, glued, done) ==
    LET accepted == ExtractCodeBlocks(done.text)
        produced == {glued[i] : i \in {j \in DOMAIN lines : lines[j] # glued[j]}}
        seen == \E k \in DOMAIN accepted : done.text[accepted[k].first] \in produced
    IN  IF seen THEN [done EXCEPT !.steps = @ \cup {"glue-opener-split"}] ELSE done

\* _one_pass.
OnePass(lines) ==
    LET glued == FixGlueOpeners(lines)
    IN  ReportSplit(lines, glued, Finish(RepairCore(glued)))

(***************************************************************************)
(* repair_response: passes to a fixed point, the worst verdict of the      *)
(* chain, and the original text when no fixed point is reached.            *)
(***************************************************************************)
MaxPasses == 4

Worse(v, w) ==
    LET rank == [clean |-> 0, ok |-> 1, ambiguous |-> 2]
    IN  IF rank[v] > rank[w] THEN v ELSE w

\* The chain of verdicts and steps once one more pass has been made.
Chained(was, now) ==
    [text |-> now.text, verdict |-> Worse(now.verdict, was.verdict),
     steps |-> was.steps \cup now.steps, settled |-> now.text = was.text]

OnceMore(was) == IF was.settled THEN was ELSE Chained(was, OnePass(was.text))

Passes(lines) ==
    Along(LAMBDA was, pass : OnceMore(was),
          [text |-> lines, verdict |-> "clean", steps |-> {}, settled |-> FALSE],
          [pass \in 1 .. MaxPasses |-> pass])

Conclude(lines, last) ==
    IF last.settled THEN Result(last.text, last.verdict, last.steps)
    ELSE Result(lines, "ambiguous", last.steps \cup {"unbalanced-block"})

RepairResponse(lines) == Conclude(lines, Passes(lines))
=============================================================================
