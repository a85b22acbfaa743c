------------------------------- MODULE CodeParser -------------------------------
(***************************************************************************)
(* app/utils/code_parser: which parts of a message are Python code.        *)
(*                                                                         *)
(* A text is a sequence of tokens: the fence of three backticks, the two   *)
(* line ends, and anything else, a word (of which "py" stands for py and   *)
(* python in any case).  Blanks and single backticks are left out.         *)
(***************************************************************************)
EXTENDS Integers, SequenceFilter

Fence == "fence"
Py    == "py"
Eols  == {"nl", "crlf"}

IsWord(token) == token \notin Eols \cup {Fence}

\* _normalize
Normalize(text) == [i \in DOMAIN text |-> IF text[i] = "crlf" THEN "nl" ELSE text[i]]

\* str.strip(): line ends at either end.
Strip(text) ==
    LET words == {i \in DOMAIN text : text[i] \notin Eols}
    IN  IF words = {} THEN <<>>
        ELSE LET first == CHOOSE i \in words : \A j \in words : i <= j
                 last  == CHOOSE i \in words : \A j \in words : i >= j
             IN  SubSeq(text, first, last)

\* A scan for _FENCE_RE: where it is - in the text, on the line of a fence that may open a
\* block, or in a block - what it has read of the block, and the blocks it has found.
Start == [in |-> "text", lang |-> <<>>, code |-> <<>>, blocks |-> <<>>]

Found(scan) == Append(scan.blocks, [lang |-> scan.lang, code |-> scan.code])

\* Mutant of Closes: the fence that closes a block is tried as the opening one of another.
ClosesAndOpens(scan) == [scan EXCEPT !.in = "line", !.lang = <<>>, !.blocks = Found(scan)]

Closes(scan) == [scan EXCEPT !.in = "text", !.blocks = Found(scan)]

\* A fence opens a block at the end of its line; if another fence comes first, that one is
\* tried.  The block ends at the next fence, and the scan goes on behind it.
Reads(scan, token) ==
    IF token = Fence
    THEN IF scan.in = "block" THEN Closes(scan) ELSE [scan EXCEPT !.in = "line", !.lang = <<>>]
    ELSE CASE scan.in = "text" -> scan
           [] scan.in = "line" /\ token = "nl" -> [scan EXCEPT !.in = "block", !.code = <<>>]
           [] scan.in = "line" /\ token # "nl" -> [scan EXCEPT !.lang = Append(@, token)]
           [] scan.in = "block" -> [scan EXCEPT !.code = Append(@, token)]

Scan(text) ==
    LET scan[k \in 0..Len(text)] == IF k = 0 THEN Start ELSE Reads(scan[k - 1], text[k])
    IN  scan[Len(text)]

\* _iter_blocks: the blocks from left to right; one that is left open ends with the text.
Blocks(text) ==
    IF Scan(text).in = "block" THEN Found(Scan(text)) ELSE Scan(text).blocks

IsSupported(lang, allow_unmarked) == lang = <<Py>> \/ (allow_unmarked /\ lang = <<>>)

\* extract_all_python_code: the code of every supported block that is not empty.
ExtractAll(text, allow_unmarked) ==
    LET blocks  == Blocks(Normalize(text))
        Runs(block) == IsSupported(block.lang, allow_unmarked) /\ Strip(block.code) # <<>>
    IN  FlattenSeq([i \in DOMAIN blocks |->
                       IF Runs(blocks[i]) THEN <<Strip(blocks[i].code)>> ELSE <<>>])

\* extract_python_code: that of the first, or nothing (None).
Extract(text, allow_unmarked) ==
    LET all == ExtractAll(text, allow_unmarked) IN IF all = <<>> THEN <<>> ELSE all[1]
================================================================================
