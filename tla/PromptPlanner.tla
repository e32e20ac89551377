---------------------------- MODULE PromptPlanner ----------------------------
(***************************************************************************)
(* Planning the prompt of an area: build_prompt, split_markdown_chunks and *)
(* build_prompt_from_chunks (regen/prompt_planner.py), and the loop of     *)
(* regen/engine.py between them that summarizes what did not fit.          *)
(* Texts are their lengths; a file is a sequence of blocks, each with the  *)
(* level of its heading (0: none) and its size, the blank line after it    *)
(* included.  Files and sub-areas are numbered in the order of their names.*)
(***************************************************************************)
EXTENDS Integers, Sequences, FiniteSets, SequencesExt

CONSTANTS PromptInputs,   \* what the planner may find
          SummaryLengths, \* lengths of a file's chunk summaries, as formatted
          TargetChars,    \* CHUNK_TARGET_CHARS
          MaxChunks,      \* MAX_CHUNKS
          Glue            \* lengths of the words around the texts

\* A block of a file, what a regeneration finds, and the lengths of the words.
Block == [level : 0 .. 6, size : Nat]
PromptInput == [base : Nat, files : Seq(Seq(Block)), kids : Seq(Nat), binaries : Nat,
                backend : [class : {"none", "extended", "standard", "small"}, max : Nat]]
Words == [filesHead : Nat, fence : Nat, chunkNote : Nat, mergeNote : Nat, omitted : Nat, binaryHead : Nat,
          binaryLine : Nat, binaryNote : Nat, kidsHead : Nat, kidsSomeHead : Nat, kidsFoot : Nat,
          legacy : Nat, override : Nat, standard : Nat, extended : Nat]

(* Lengths and budgets are numbers.                                        *)
ASSUME PromptAssumption == /\ PromptInputs \subseteq PromptInput /\ SummaryLengths \subseteq Nat
                           /\ TargetChars \in Nat /\ Glue \in Words

VARIABLES input,  \* base, files, kids, binaries, backend: what one regeneration found
          plan    \* how far it has come, and the prompt planned last

promptVars == <<input, plan>>

Tokens(n) == n \div 3
Total(s) == LET sum[n \in 0 .. Len(s)] == IF n = 0 THEN 0 ELSE sum[n - 1] + s[n] IN sum[Len(s)]
Size(blocks) == Total([i \in 1 .. Len(blocks) |-> blocks[i].size])
AtLeast0(n) == IF n > 0 THEN n ELSE 0
Least(m, n) == IF m < n THEN m ELSE n

\* resolve_effective_prompt_budget; the setting that overrides it is Glue.override, if it is set.
EffectiveBudget(backend) ==
    CASE Glue.override # Glue.legacy -> Glue.override
      [] backend.class = "none" -> Glue.legacy
      [] backend.class = "extended" -> Least(backend.max, Glue.extended)
      [] backend.class = "standard" -> Least(backend.max, Glue.standard)
      [] backend.class = "small" -> Least(backend.max, Glue.legacy)

-----------------------------------------------------------------------------
\* _assemble_file_parts_text: the parts of files, so many and so long, then the names of binary files.
Assembled(count, length, binaryText) ==
    LET file == IF count = 0 THEN 0 ELSE Glue.filesHead + length + 2 * (count - 1)
    IN  CASE file = 0 /\ binaryText = 0 -> 0
          [] file > 0 /\ binaryText > 0 -> file + 2 + binaryText + 1
          [] OTHER -> file + binaryText + 1

AllAssembled(parts, binaryText) == Assembled(Len(parts), Total(parts), binaryText)
BinariesAlone(binaryText) == Assembled(0, 0, binaryText)

BinaryList(n) == IF n = 0 THEN 0 ELSE Glue.binaryHead + n * Glue.binaryLine
BinaryNote(n) == IF n = 0 THEN 0 ELSE Glue.binaryNote

\* The larger first; of two as large the one named last.
LargestFirst(parts) ==
    LET sooner(j, i) == \/ Tokens(parts[j]) > Tokens(parts[i])
                        \/ Tokens(parts[j]) = Tokens(parts[i]) /\ j > i
        rank(i) == Cardinality({j \in 1 .. Len(parts) : sooner(j, i)})
    IN  [k \in 1 .. Len(parts) |-> CHOOSE i \in 1 .. Len(parts) : rank(i) = k - 1]

\* A mutated form: the first that does not fit ends it.
GreedyUntilFull(order, parts, room) ==
    LET full == {n \in DOMAIN order : Total([m \in 1 .. n |-> Tokens(parts[order[m]])]) > room}
    IN  SelectSeq(order, LAMBDA i : \A n \in full : \E m \in 1 .. n - 1 : order[m] = i)

\* What fits one after the other is taken, what does not is passed over.
Greedy(order, parts, room) ==
    LET got[n \in 0 .. Len(order)] ==
          IF n = 0 THEN [taken |-> <<>>, used |-> 0]
          ELSE LET had == got[n - 1]
                   cost == Tokens(parts[order[n]])
               IN  IF had.used + cost <= room
                     THEN [taken |-> Append(had.taken, order[n]), used |-> had.used + cost]
                     ELSE had
    IN  got[Len(order)].taken

\* The first of Len(s) + 1 shorter and shorter sequences that passes, or the empty one.
FirstFit(s, cut(_), fits(_)) ==
    LET passing == {k \in 0 .. Len(s) : fits(cut(k)) \/ k = Len(s)}
    IN  cut(CHOOSE k \in passing : \A j \in passing : k <= j)

\* Of each file that is not shown there is a note.
Noted(taken, parts, note, binaries) ==
    AllAssembled([i \in 1 .. Len(parts) |-> IF i \in ToSet(taken) THEN parts[i] ELSE note], BinaryList(binaries))

\* The files shown, and one part that says how many are not.
Collapsed(shown, parts, binaryText) ==
    LET length == Total([i \in 1 .. Len(parts) |-> IF i \in ToSet(shown) THEN parts[i] ELSE 0])
    IN  IF Len(shown) < Len(parts) THEN Assembled(Len(shown) + 1, length + Glue.omitted, binaryText)
        ELSE Assembled(Len(shown), length, binaryText)

FirstWithin(candidates, room) ==
    candidates[CHOOSE n \in DOMAIN candidates :
                 /\ Tokens(candidates[n]) <= room \/ n = Len(candidates)
                 /\ \A m \in 1 .. n - 1 : Tokens(candidates[m]) > room]

\* Each of the others is named, or they are counted, beside the binary files or their number, or
\* there is no text at all.
Packed(shown, greedy, parts, note, binaries, room) ==
    [shown |-> ToSet(shown), trimmed |-> Len(shown) < Len(greedy),
     size |-> FirstWithin(<<Noted(shown, parts, note, binaries),
                            Collapsed(shown, parts, BinaryList(binaries)),
                            Collapsed(shown, parts, BinaryNote(binaries)), 0>>, room)]

\* The largest that was taken is dropped first.
Trimmed(greedy, parts, note, binaries, room) ==
    FirstFit(greedy, LAMBDA k : SubSeq(greedy, k + 1, Len(greedy)),
                     LAMBDA taken : Tokens(Noted(taken, parts, note, binaries)) <= room)

\* _pack_formatted_file_parts: the files shown, whether some were dropped again, and the text.
PackFiles(parts, note, binaries, room) ==
    LET greedy == Greedy(LargestFirst(parts), parts, room)
    IN  IF parts = <<>> THEN [shown |-> {}, trimmed |-> FALSE, size |-> BinariesAlone(BinaryList(binaries))]
        ELSE Packed(Trimmed(greedy, parts, note, binaries, room), greedy, parts, note, binaries, room)

\* _pack_child_summaries: sub-areas in the order of their names, the last loaded given up first.
KidsText(loaded, kids) ==
    LET footed == Len(loaded) < Len(kids)
    IN  IF loaded = <<>> THEN 0
        ELSE Total([i \in 1 .. Len(loaded) |-> kids[loaded[i]]])
               + (IF footed THEN Glue.kidsSomeHead + Glue.kidsFoot ELSE Glue.kidsHead)

\* A mutated form: the text that is put together is not counted again.
PackKidsUncounted(kids, room) ==
    IF room <= 0 THEN 0 ELSE KidsText(Greedy([i \in 1 .. Len(kids) |-> i], kids, room), kids)

PackKids(kids, room) ==
    LET greedy == Greedy([i \in 1 .. Len(kids) |-> i], kids, room)
        loaded == FirstFit(greedy, LAMBDA k : SubSeq(greedy, 1, Len(greedy) - k),
                                   LAMBDA taken : Tokens(KidsText(taken, kids)) <= room)
    IN  IF room <= 0 THEN 0 ELSE KidsText(loaded, kids)

OverBudget(size, budget) == Tokens(size) > budget

Whole(unkinded, budget) ==
    unkinded + PackKids(input.kids, AtLeast0(budget - Tokens(unkinded)))

Judged(files, size, budget) ==
    [outcome |-> IF OverBudget(size, budget) THEN "refused" ELSE "planned",
     shown |-> files.shown, trimmed |-> files.trimmed, size |-> size, scaffold |-> FALSE]

WithKids(files, budget) == Judged(files, Whole(input.base + files.size, budget), budget)

\* What build_prompt and build_prompt_from_chunks have in common: their parts differ, and the notes.
Planned(parts, note) ==
    LET budget == EffectiveBudget(input.backend)
        fixed == input.base + BinariesAlone(BinaryList(input.binaries))
    IN  IF OverBudget(fixed, budget)
          THEN [outcome |-> "refused", shown |-> {}, trimmed |-> FALSE, size |-> fixed, scaffold |-> TRUE]
          ELSE WithKids(PackFiles(parts, note, input.binaries, budget - Tokens(fixed)), budget)

-----------------------------------------------------------------------------
\* split_markdown_chunks
FirstLevel(blocks) ==
    LET headings == {i \in DOMAIN blocks : blocks[i].level > 0}
    IN  IF headings = {} THEN 1 ELSE blocks[CHOOSE i \in headings : \A j \in headings : i <= j].level

\* A piece begins the next chunk, or goes on with the last.
Continued(chunks, piece) == [chunks EXCEPT ![Len(chunks)] = @ \o piece]
Gathered(chunks, piece, apart) ==
    IF chunks = <<>> \/ apart THEN Append(chunks, piece) ELSE Continued(chunks, piece)

Sections(blocks, level) ==
    LET upTo[n \in 0 .. Len(blocks)] ==
          IF n = 0 THEN <<>> ELSE Gathered(upTo[n - 1], <<blocks[n]>>, blocks[n].level \in 1 .. level)
    IN  upTo[Len(blocks)]

TooMuch(chunks, piece) == Size(Last(chunks)) + Size(piece) > TargetChars

Joined(pieces) ==
    LET upTo[n \in 0 .. Len(pieces)] ==
          IF n = 0 THEN <<>> ELSE Gathered(upTo[n - 1], pieces[n], TooMuch(upTo[n - 1], pieces[n]))
    IN  upTo[Len(pieces)]

\* One section leads to the paragraphs at once, whatever headings are deeper in it.
ChunksAt(level, blocks, deeper) ==
    LET sections == Sections(blocks, level)
        joined == Joined(sections)
    IN  CASE Size(blocks) <= TargetChars -> <<blocks>>
          [] Size(blocks) > TargetChars /\ level <= 3 /\ Len(sections) > 1 ->
               FlattenSeq([i \in 1 .. Len(joined) |-> deeper[joined[i]]])
          [] OTHER -> Joined([i \in 1 .. Len(blocks) |-> <<blocks[i]>>])

ChunksFrom[level \in 1 .. 6] == [blocks \in Seq(Block) |-> ChunksAt(level, blocks, ChunksFrom[level + 1])]

Chunks(blocks) == ChunksFrom[FirstLevel(blocks)][blocks]

-----------------------------------------------------------------------------
PromptInit == /\ input \in PromptInputs
              /\ plan = [at |-> "start", inlined |-> {}, shown |-> {}, left |-> {}, summaries |-> <<>>,
                         trimmed |-> FALSE, size |-> 0, scaffold |-> FALSE]

FileParts == [i \in DOMAIN input.files |-> Glue.fence + Size(input.files[i])]

\* Of the others the content is kept, by their names.
ToSummarize(shown) == DOMAIN input.files \ shown

BuildPrompt ==
    /\ plan.at = "start"
    /\ LET p == Planned(FileParts, Glue.chunkNote)
           left == ToSummarize(p.shown)
       IN  plan' = [plan EXCEPT !.at = CASE p.outcome = "refused" -> "refused"
                                         [] p.outcome = "planned" /\ left = {} -> "sent"
                                         [] p.outcome = "planned" /\ left # {} -> "summarizing",
                                !.inlined = p.shown, !.shown = p.shown, !.left = left, !.trimmed = p.trimmed,
                                !.size = p.size, !.scaffold = p.scaffold]
    /\ UNCHANGED input

\* The backend is asked for every chunk of the next file, in the order of their names; a file of too
\* many chunks ends it.
SummarizeFile ==
    /\ plan.at = "summarizing" /\ plan.left # {}
    /\ LET file == Min(plan.left)
       IN  IF Len(Chunks(input.files[file])) > MaxChunks
             THEN plan' = [plan EXCEPT !.at = "failed"]
             ELSE \E n \in SummaryLengths :
                    plan' = [plan EXCEPT !.left = @ \ {file},
                                         !.summaries = Append(@, [file |-> file, size |-> n])]
    /\ UNCHANGED input

BackendFails == /\ plan.at = "summarizing" /\ plan.left # {}
                /\ plan' = [plan EXCEPT !.at = "failed"]
                /\ UNCHANGED input

SummaryParts == [n \in DOMAIN plan.summaries |-> plan.summaries[n].size]

\* The prompt is planned anew, and only the summarized files are parts of it: the first prompt, and
\* with it the files that are inlined there, is given up.
Merge ==
    /\ plan.at = "summarizing" /\ plan.left = {}
    /\ LET p == Planned(SummaryParts, Glue.mergeNote)
       IN  plan' = [plan EXCEPT !.at = IF p.outcome = "refused" THEN "refused" ELSE "sent",
                                !.shown = {plan.summaries[n].file : n \in p.shown},
                                !.trimmed = p.trimmed, !.size = p.size, !.scaffold = p.scaffold]
    /\ UNCHANGED input

PromptNext == BuildPrompt \/ SummarizeFile \/ BackendFails \/ Merge

-----------------------------------------------------------------------------
\* A prompt that is sent keeps to the budget, and one whose fixed part keeps to it is refused only
\* for what the rounding of two estimates hides: by a single token.
RefusedOnlyByRounding ==
    LET over == Tokens(plan.size) - EffectiveBudget(input.backend)
    IN  /\ plan.at = "sent" => over <= 0
        /\ plan.at = "refused" => plan.scaffold \/ over = 1

\* Of these parts of a prompt, i does not fit beside those that are taken and the notes for the others.
NoRoomFor(i, parts, taken, note) ==
    LET binaries == BinaryList(input.binaries)
        room == EffectiveBudget(input.backend) - Tokens(input.base + BinariesAlone(binaries))
        text == [j \in DOMAIN parts |-> IF j \in taken \cup {i} THEN parts[j] ELSE note]
    IN  Tokens(AllAssembled(text, binaries)) > room

\* Its chunks have every block of it in order, and one over the target is a single block.
ChunksKeepTheText ==
    \A i \in DOMAIN input.files :
        LET chunks == Chunks(input.files[i])
        IN  /\ FlattenSeq(chunks) = input.files[i]
            /\ \A n \in DOMAIN chunks : Size(chunks[n]) <= TargetChars \/ Len(chunks[n]) = 1

\* The summaries that the merge prompt has.
Merged == {n \in DOMAIN plan.summaries : plan.summaries[n].file \in plan.shown}

\* A file is left out of the first prompt only for want of room beside those that are inlined, and is
\* then summarized from the whole of its text.  The prompt that is sent has every file, inlined or by
\* its summaries, but for these: one whose summaries do not fit beside the others, and one that was
\* inlined in a first prompt that is given up because another file was left out of it.  And the room of
\* a larger part that is dropped again after the exact count is offered to nobody.
OnlyTheseAreLeftOut ==
    /\ plan.at = "summarizing" =>
         /\ ChunksKeepTheText
         /\ \A i \in DOMAIN input.files \ plan.inlined :
              NoRoomFor(i, FileParts, plan.inlined, Glue.chunkNote) \/ plan.trimmed
    /\ plan.at = "sent" =>
         \A i \in DOMAIN input.files \ plan.shown :
           \/ i \in plan.inlined /\ plan.summaries # <<>>
           \/ \E n \in DOMAIN plan.summaries :
                /\ plan.summaries[n].file = i
                /\ NoRoomFor(n, SummaryParts, Merged, Glue.mergeNote) \/ plan.trimmed

=============================================================================
