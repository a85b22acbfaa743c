----------------------------- MODULE ListenerProofs -----------------------------
(***************************************************************************)
(* Theorems about the listener: its command tells the truth, whatever pip  *)
(* and Discord do, and the code it hands on is what its rules single out,  *)
(* in messages of any number of segments and attachments whose words hold  *)
(* no fence.                                                               *)
(***************************************************************************)
EXTENDS Listener, SequenceLemmas

\* The place of a command tells what is known of pip and of the status message.
PlaceInv ==
    /\ cmd \in {"idle", "replying", "spawning"} => pip = "none"
    /\ cmd = "finished" => pip = "exited"
    /\ cmd = "failed" => pip # "running"
    /\ cmd = "timed_out" => timed_out \/ pip # "running"
    /\ cmd \in CommandOver /\ pip = "running" => timed_out

\* What can be told as long as no call of Discord has failed.
ToldInv ==
    /\ cmd_status = "finished" => pip = "exited"
    /\ ~cmd_faulty =>
          /\ cmd = "failed" \/ cmd_status = "failed" => pip = "none"
          /\ cmd = "timed_out" \/ cmd_status = "timed_out" => timed_out
          /\ cmd \in {"spawning", "communicating"} \cup Verdicts => status_msg
          /\ cmd \in CommandOver /\ cmd_status # "none" => cmd_status \in Verdicts
    /\ cmd \in {"idle", "replying"} => cmd_status = "none" /\ ~cmd_faulty
    /\ cmd \in {"spawning", "communicating"} => cmd_status \notin Verdicts

CommandInv == CommandTypeOK /\ PlaceInv /\ ToldInv

LEMMA CommandInvInit == CommandInit => CommandInv
BY DEF CommandInit, CommandInv, CommandTypeOK, PlaceInv, ToldInv, CommandOver, Verdicts

LEMMA CommandInvNext ==
    ASSUME CommandInv, CommandNext \/ CommandBegins(TRUE) \/ CommandBegins(FALSE)
    PROVE  CommandInv'
<1> USE DEF CommandInv, CommandTypeOK, PlaceInv, ToldInv, CommandOver, Verdicts, Finish, Show,
            Outcomes, Reaches, Raises
<1>1. CASE CommandBegins(TRUE) \/ CommandBegins(FALSE)
    BY <1>1 DEF CommandBegins
<1>2. CASE CommandReplied
    BY <1>2 DEF CommandReplied
<1>3. CASE Spawned
    BY <1>3 DEF Spawned
<1>4. CASE PipExits
    BY <1>4 DEF PipExits
<1>5. CASE Communicated
    BY <1>5 DEF Communicated
<1>6. CASE CommandTimesOut
    BY <1>6 DEF CommandTimesOut
<1>7. CASE ShowFinished
    BY <1>7 DEF ShowFinished
<1>8. CASE ShowProblem
    BY <1>8 DEF ShowProblem
<1> QED BY <1>1, <1>2, <1>3, <1>4, <1>5, <1>6, <1>7, <1>8 DEF CommandNext, CommandStep

LEMMA CommandInvKept == ASSUME CommandInv, [Next]_vars PROVE CommandInv'
<1>1. CASE UNCHANGED cmdVars
    BY <1>1 DEF cmdVars, CommandInv, CommandTypeOK, PlaceInv, ToldInv, CommandOver, Verdicts
<1>2. (message.lead = "!pip") \in BOOLEAN
    OBVIOUS
<1>3. ~UNCHANGED cmdVars => CommandNext \/ CommandBegins(TRUE) \/ CommandBegins(FALSE)
    BY <1>2 DEF Next, Receive, Deferred, Read, Choose, Command, CommandReturns, Pip, CommandNext,
               vars, cmdVars
<1> QED BY <1>1, <1>3, CommandInvNext

\* What the user is told of `!pip install` is what became of it, in whatever order pip,
\* the 60 seconds and Discord's answers come.
THEOREM CommandTruthful == Spec => []CommandHonest
<1>1. Init => CommandInv
    BY CommandInvInit DEF Init
<1>2. CommandInv => CommandHonest
    BY DEF CommandInv, PlaceInv, ToldInv, CommandHonest
<1> QED BY <1>1, <1>2, CommandInvKept, PTL DEF Spec

--------------------------------------------------------------------------------
(* The parser's scan *)

FoundBlocks == [lang : Seq(Tokens), code : Seq(Tokens)]
Scans == [in : {"text", "line", "block"}, lang : Seq(Tokens), code : Seq(Tokens),
          blocks : Seq(FoundBlocks)]

LEMMA StartType == Start \in Scans
BY DEF Start, Scans

LEMMA FoundType ==
    ASSUME NEW scan \in Scans
    PROVE  Found(scan) \in Seq(FoundBlocks)
<1>1. [lang |-> scan.lang, code |-> scan.code] \in FoundBlocks /\ scan.blocks \in Seq(FoundBlocks)
    BY DEF Scans, FoundBlocks
<1> QED BY <1>1, AppendProperties DEF Found

LEMMA ReadsType ==
    ASSUME NEW scan \in Scans, NEW token \in Tokens
    PROVE  Reads(scan, token) \in Scans
<1>1. scan.lang \in Seq(Tokens) /\ scan.code \in Seq(Tokens)
    BY DEF Scans
<1>2. Found(scan) \in Seq(FoundBlocks)
    BY FoundType
<1>3. \A s \in Seq(Tokens) : Append(s, token) \in Seq(Tokens)
    BY AppendProperties
<1>4. scan.in \in {"text", "line", "block"}
    BY DEF Scans
<1>5. CASE token = Fence
    BY <1>2, <1>4, <1>5, EmptySeq DEF Reads, Closes, Scans
<1>6. CASE token # Fence /\ scan.in = "text"
    BY <1>6 DEF Reads
<1>7. CASE token # Fence /\ scan.in = "line"
    BY <1>1, <1>3, <1>7, EmptySeq DEF Reads, Scans
<1>8. CASE token # Fence /\ scan.in = "block"
    BY <1>1, <1>3, <1>8 DEF Reads, Scans
<1> QED BY <1>4, <1>5, <1>6, <1>7, <1>8

\* What the scan makes of a token, where it matters.
LEMMA ReadsCases ==
    ASSUME NEW scan \in Scans, NEW token \in Tokens, NEW next, next = Reads(scan, token)
    PROVE  /\ token = Fence /\ scan.in # "block" =>
                 next.in = "line" /\ next.lang = <<>> /\ next.blocks = scan.blocks
           /\ token = Fence /\ scan.in = "block" => next.in = "text" /\ next.blocks = Found(scan)
           /\ token # Fence /\ scan.in = "text" => next = scan
           /\ token = "nl" /\ scan.in = "line" =>
                 /\ next.in = "block" /\ next.lang = scan.lang /\ next.code = <<>>
                 /\ next.blocks = scan.blocks
           /\ token \notin {"nl", Fence} /\ scan.in = "line" =>
                 /\ next.in = "line" /\ next.lang = Append(scan.lang, token)
                 /\ next.blocks = scan.blocks
           /\ token # Fence /\ scan.in = "block" =>
                 /\ next.in = "block" /\ next.lang = scan.lang
                 /\ next.code = Append(scan.code, token) /\ next.blocks = scan.blocks
BY DEF Reads, Closes, Scans, Fence

\* The recursion that defines Scan, as an equation for its function.
ScansTo(f, text, n) == f = [k \in 0..n |-> IF k = 0 THEN Start ELSE Reads(f[k - 1], text[k])]

LEMMA ScansExist == ASSUME NEW text PROVE \A n \in Nat : \E f : ScansTo(f, text, n)
<1> DEFINE T == {n \in Nat : \E f : ScansTo(f, text, n)}
<1>1. 0 \in T
    <2>1. ScansTo([k \in 0..0 |-> Start], text, 0)
        BY DEF ScansTo
    <2> QED BY <2>1
<1>2. ASSUME NEW n \in T PROVE n + 1 \in T
    <2>1. PICK f : ScansTo(f, text, n)
        OBVIOUS
    <2> DEFINE g == [k \in 0..(n + 1) |-> IF k = 0 THEN Start ELSE Reads(f[k - 1], text[k])]
    <2>2. ASSUME NEW k \in 0..n PROVE g[k] = f[k]
        <3>1. k \in 0..(n + 1)
            OBVIOUS
        <3>2. f[k] = IF k = 0 THEN Start ELSE Reads(f[k - 1], text[k])
            BY <2>1 DEF ScansTo
        <3> QED BY <3>1, <3>2
    <2>3. ASSUME NEW k \in 0..(n + 1), k # 0 PROVE g[k] = Reads(g[k - 1], text[k])
        <3>1. k - 1 \in 0..n
            BY <2>3
        <3>2. g[k - 1] = f[k - 1]
            BY <2>2, <3>1
        <3>3. g[k] = Reads(f[k - 1], text[k])
            BY <2>3
        <3> QED BY <3>2, <3>3
    <2>4. \A k \in 0..(n + 1) : g[k] = IF k = 0 THEN Start ELSE Reads(g[k - 1], text[k])
        BY <2>3
    <2>5. g = [k \in 0..(n + 1) |-> g[k]]
        OBVIOUS
    <2> HIDE DEF g
    <2>6. ScansTo(g, text, n + 1)
        BY <2>4, <2>5 DEF ScansTo
    <2> QED BY <2>6
<1> HIDE DEF T
<1>3. T \in SUBSET Nat
    BY DEF T
<1>4. T = Nat
    BY <1>1, <1>2, <1>3, AllNat
<1> QED BY <1>4 DEF T

LEMMA ScansUnique ==
    ASSUME NEW text, NEW n \in Nat, NEW f, NEW g, ScansTo(f, text, n), ScansTo(g, text, n)
    PROVE  \A k \in 0..n : f[k] = g[k]
<1> DEFINE T == {k \in Nat : k \in 0..n => f[k] = g[k]}
<1>1. 0 \in T
    BY DEF ScansTo
<1>2. ASSUME NEW k \in T PROVE k + 1 \in T
    <2>1. SUFFICES ASSUME k + 1 \in 0..n PROVE f[k + 1] = g[k + 1]
        OBVIOUS
    <2>2. k \in 0..n /\ k + 1 # 0 /\ (k + 1) - 1 = k
        BY <2>1
    <2>3. f[k + 1] = Reads(f[k], text[k + 1]) /\ g[k + 1] = Reads(g[k], text[k + 1])
        BY <2>1, <2>2 DEF ScansTo
    <2> QED BY <2>2, <2>3
<1>3. T \in SUBSET Nat
    OBVIOUS
<1>4. T = Nat
    <2> HIDE DEF T
    <2> QED BY <1>1, <1>2, <1>3, AllNat
<1> QED BY <1>4

\* Any function that satisfies the equation has what Scan returns at its end.
LEMMA ScanIs ==
    ASSUME NEW text, NEW n \in Nat, Len(text) = n, NEW f, ScansTo(f, text, n)
    PROVE  Scan(text) = f[n]
<1> DEFINE g == CHOOSE x : ScansTo(x, text, n)
<1>1. Scan(text) = g[n]
    BY DEF Scan, ScansTo
<1>2. ScansTo(g, text, n)
    OBVIOUS
<1> HIDE DEF g
<1>3. g[n] = f[n]
    BY <1>2, ScansUnique
<1> QED BY <1>1, <1>3

LEMMA ScanEmpty == Scan(<<>>) = Start
<1> DEFINE empty == <<>>
<1>0. Len(empty) = 0
    OBVIOUS
<1> HIDE DEF empty
<1>1. PICK f : ScansTo(f, empty, 0)
    BY ScansExist
<1>2. Scan(empty) = f[0]
    BY <1>0, <1>1, ScanIs
<1>3. f[0] = Start
    BY <1>1 DEF ScansTo
<1> QED BY <1>2, <1>3 DEF empty

LEMMA ScanAppend ==
    ASSUME NEW S, NEW text \in Seq(S), NEW token \in S
    PROVE  Scan(Append(text, token)) = Reads(Scan(text), token)
<1> DEFINE n == Len(text)
           longer == Append(text, token)
<1>1. /\ n \in Nat /\ Len(longer) = n + 1 /\ longer[n + 1] = token
      /\ \A i \in 1..n : longer[i] = text[i]
    BY LenProperties, AppendProperties
<1> HIDE DEF n, longer
<1>2. PICK f : ScansTo(f, longer, n + 1)
    BY <1>1, ScansExist
<1>3. Scan(longer) = f[n + 1]
    <2>1. n + 1 \in Nat
        BY <1>1
    <2> QED BY <1>1, <1>2, <2>1, ScanIs
<1> DEFINE g == [k \in 0..n |-> f[k]]
<1>4. ASSUME NEW k \in 0..n
      PROVE  g[k] = IF k = 0 THEN Start ELSE Reads(g[k - 1], text[k])
    <2>1. k \in 0..(n + 1) /\ (k # 0 => k - 1 \in 0..n /\ k \in 1..n)
        BY <1>1
    <2>2. f[k] = IF k = 0 THEN Start ELSE Reads(f[k - 1], longer[k])
        BY <1>2, <2>1 DEF ScansTo
    <2> QED BY <1>1, <2>1, <2>2
<1>5. g = [k \in 0..n |-> g[k]]
    OBVIOUS
<1>6. g[n] = f[n]
    BY <1>1
<1> HIDE DEF g
<1>7. ScansTo(g, text, n)
    BY <1>4, <1>5 DEF ScansTo
<1>8. Scan(text) = g[n]
    BY <1>1, <1>7, ScanIs DEF n
<1>9. f[n + 1] = Reads(f[n], token)
    <2>1. n + 1 \in 0..(n + 1) /\ n + 1 # 0 /\ (n + 1) - 1 = n
        BY <1>1
    <2>2. f[n + 1] = Reads(f[(n + 1) - 1], longer[n + 1])
        BY <1>2, <2>1 DEF ScansTo
    <2> QED BY <1>1, <2>1, <2>2
<1> QED BY <1>3, <1>6, <1>8, <1>9 DEF longer

\* What is read of a text whose line ends have been normalised.
Norm(token) == IF token = "crlf" THEN "nl" ELSE token
Seen(text) == Scan(Normalize(text))

LEMMA NormType == ASSUME NEW token \in Tokens PROVE Norm(token) \in Tokens
<1>1. "nl" \in Tokens
    BY DEF Tokens, Eols
<1> QED BY <1>1 DEF Norm

LEMMA NormalizeType == ASSUME NEW text \in Seq(Tokens) PROVE Normalize(text) \in Seq(Tokens)
<1>1. DOMAIN text = 1..Len(text) /\ Len(text) \in Nat /\ \A i \in 1..Len(text) : text[i] \in Tokens
    BY LenProperties, ElementOfSeq
<1>2. Normalize(text) \in [1..Len(text) -> Tokens]
    <2>1. "nl" \in Tokens
        BY DEF Tokens, Eols
    <2> QED BY <1>1, <2>1 DEF Normalize
<1> QED BY <1>1, <1>2, SeqDef

LEMMA NormalizeAppend ==
    ASSUME NEW text \in Seq(Tokens), NEW token \in Tokens
    PROVE  Normalize(Append(text, token)) = Append(Normalize(text), Norm(token))
<1> DEFINE n == Len(text)
           longer == Append(text, token)
           plain == Normalize(text)
           wanted == Append(plain, Norm(token))
<1>1. /\ n \in Nat /\ longer \in Seq(Tokens) /\ Len(longer) = n + 1 /\ longer[n + 1] = token
      /\ \A i \in 1..n : longer[i] = text[i]
    BY LenProperties, AppendProperties
<1>2. plain \in Seq(Tokens) /\ DOMAIN text = 1..n /\ DOMAIN plain = 1..n
    BY NormalizeType, LenProperties DEF Normalize
<1>3. Len(plain) = n
    BY <1>1, <1>2, LenProperties
<1>4. Norm(token) \in Tokens
    BY NormType
<1>5. /\ wanted \in Seq(Tokens) /\ Len(wanted) = n + 1 /\ wanted[n + 1] = Norm(token)
      /\ \A i \in 1..n : wanted[i] = plain[i]
    <2> HIDE DEF plain, n
    <2> QED BY <1>2, <1>3, <1>4, AppendProperties
<1>6. DOMAIN longer = 1..(n + 1)
    BY <1>1, LenProperties
<1>7. ASSUME NEW i \in 1..(n + 1)
      PROVE  Normalize(longer)[i] = wanted[i]
    <2>1. Normalize(longer)[i] = Norm(longer[i])
        BY <1>6 DEF Normalize, Norm
    <2>2. CASE i = n + 1
        BY <1>1, <1>5, <2>1, <2>2
    <2>3. CASE i # n + 1
        <3>1. i \in 1..n
            BY <1>1, <2>3
        <3>2. plain[i] = Norm(text[i])
            BY <1>2, <3>1 DEF Normalize, Norm
        <3> QED BY <1>1, <1>5, <2>1, <3>1, <3>2
    <2> QED BY <2>2, <2>3
<1>8. Normalize(longer) \in Seq(Tokens) /\ DOMAIN Normalize(longer) = 1..(n + 1)
    BY <1>1, <1>6, NormalizeType DEF Normalize
<1>9. Len(Normalize(longer)) = n + 1
    BY <1>1, <1>8, LenProperties
<1> HIDE DEF wanted, longer, n
<1>10. Normalize(longer) = wanted
    BY <1>5, <1>7, <1>8, <1>9, SeqEqual
<1> QED BY <1>10 DEF wanted, longer

LEMMA SeenEmpty == Seen(<<>>) = Start
<1>1. Normalize(<<>>) = <<>>
    BY DEF Normalize
<1> QED BY <1>1, ScanEmpty DEF Seen

LEMMA SeenAppend ==
    \A text \in Seq(Tokens), token \in Tokens :
        Seen(text \o <<token>>) = Reads(Seen(text), Norm(token))
<1> SUFFICES ASSUME NEW text \in Seq(Tokens), NEW token \in Tokens
             PROVE  Seen(text \o <<token>>) = Reads(Seen(text), Norm(token))
    OBVIOUS
<1>1. text \o <<token>> = Append(text, token)
    BY AppendIsConcat
<1>2. Normalize(text) \in Seq(Tokens) /\ Norm(token) \in Tokens
    BY NormalizeType, NormType
<1>3. \A plain \in Seq(Tokens), last \in Tokens : Scan(Append(plain, last)) = Reads(Scan(plain), last)
    BY ScanAppend
<1>4. Scan(Append(Normalize(text), Norm(token))) = Reads(Scan(Normalize(text)), Norm(token))
    BY <1>2, <1>3
<1>5. Normalize(Append(text, token)) = Append(Normalize(text), Norm(token))
    BY NormalizeAppend
<1> QED BY <1>1, <1>4, <1>5 DEF Seen

LEMMA SeenType == \A text \in Seq(Tokens) : Seen(text) \in Scans
<1> DEFINE T == {text \in Seq(Tokens) : Seen(text) \in Scans}
<1>1. <<>> \in T
    BY SeenEmpty, StartType, EmptySeq
<1>2. ASSUME NEW text \in T, NEW token \in Tokens PROVE Append(text, token) \in T
    <2>1. Append(text, token) \in Seq(Tokens) /\ Append(text, token) = text \o <<token>>
        BY AppendProperties, AppendIsConcat
    <2>2. Seen(text \o <<token>>) = Reads(Seen(text), Norm(token))
        BY SeenAppend
    <2>3. Norm(token) \in Tokens /\ Seen(text) \in Scans
        BY NormType
    <2>4. \A scan \in Scans, last \in Tokens : Reads(scan, last) \in Scans
        BY ReadsType
    <2> QED BY <2>1, <2>2, <2>3, <2>4
<1>3. T = Seq(Tokens)
    <2>1. T \in SUBSET Seq(Tokens)
        OBVIOUS
    <2> HIDE DEF T
    <2> QED BY <1>1, <1>2, <2>1, AllSeq
<1> QED BY <1>3

\* The blocks found by a scan that ends here.
Result(scan) == IF scan.in = "block" THEN Found(scan) ELSE scan.blocks

\* The block that a segment is.
BlockOf(seg, i) ==
    IF seg.lang = "prose" THEN <<>>
    ELSE <<[lang |-> IF seg.lang = "" THEN <<>> ELSE <<seg.lang>>,
            code |-> IF seg.empty THEN <<>> ELSE <<Codes[i], "nl">>]>>

LEMMA CodesAreWords ==
    \A i \in DOMAIN Codes : Codes[i] \in Tokens /\ Codes[i] \notin {Fence, Py, "nl", "crlf"}
BY ListenerAssumption DEF IsWord, Eols, Tokens

\* A segment adds its block to what was found, and leaves the scan in the text if it is closed.
LEMMA SegmentSeen ==
    ASSUME NEW t \in Seq(Tokens), NEW seg \in Block \cup {Prose}, NEW i \in DOMAIN Codes,
           NEW eol \in Eols, Seen(t).in = "text"
    PROVE  /\ Written(seg, i, eol) \in Seq(Tokens)
           /\ seg.closed => Seen(t \o Written(seg, i, eol)).in = "text"
           /\ Result(Seen(t \o Written(seg, i, eol))) = Seen(t).blocks \o BlockOf(seg, i)
<1> DEFINE w == Codes[i]
<1>1. /\ w \in Tokens /\ w \notin {Fence, "nl"} /\ Norm(w) = w /\ eol \in Tokens /\ Norm(eol) = "nl"
      /\ Fence \in Tokens /\ Norm(Fence) = Fence /\ "nl" # Fence /\ "nl" \in Tokens
    BY CodesAreWords DEF Norm, Eols, Fence, Tokens
<1>2. /\ Seen(t) \in Scans
      /\ \A u \in Seq(Tokens), x \in Tokens :
            /\ u \o <<x>> \in Seq(Tokens) /\ Seen(u) \in Scans
            /\ Seen(u \o <<x>>) = Reads(Seen(u), Norm(x))
    <2>1. \A u \in Seq(Tokens), x \in Tokens : u \o <<x>> \in Seq(Tokens)
        OBVIOUS
    <2> QED BY <2>1, SeenType, SeenAppend
<1> HIDE DEF w
<1>3. CASE seg.lang = "prose"
    <2>1. Written(seg, i, eol) = <<w, eol>> /\ BlockOf(seg, i) = <<>>
        BY <1>3 DEF Written, BlockOf, w
    <2>2. <<w, eol>> \in Seq(Tokens) /\ t \o <<w, eol>> = (t \o <<w>>) \o <<eol>>
        <3>1. t \in Seq(Tokens) /\ w \in Tokens /\ eol \in Tokens
            BY <1>1
        <3> QED BY ONLY <3>1, Pair, PairBehind
    <2>3. Seen(t \o <<w>>) = Seen(t)
        BY <1>1, <1>2, ReadsCases
    <2>4. Seen((t \o <<w>>) \o <<eol>>) = Reads(Seen(t \o <<w>>), "nl")
        BY <1>1, <1>2
    <2>5. Seen(t \o Written(seg, i, eol)) = Seen(t)
        <3>1. Reads(Seen(t), "nl") = Seen(t)
            BY <1>1, <1>2, ReadsCases
        <3> QED BY <2>1, <2>2, <2>3, <2>4, <3>1
    <2>6. Seen(t).blocks \o <<>> = Seen(t).blocks
        BY <1>2, ConcatEmptySeq DEF Scans
    <2> QED BY <2>1, <2>2, <2>5, <2>6 DEF Result
<1>4. CASE seg.lang # "prose"
    <2> DEFINE lang == IF seg.lang = "" THEN <<>> ELSE <<seg.lang>>
               body == IF seg.empty THEN <<>> ELSE <<w, eol>>
               closing == IF seg.closed THEN <<Fence, eol>> ELSE <<>>
               code == IF seg.empty THEN <<>> ELSE <<w, "nl">>
               found == [lang |-> lang, code |-> code]
    <2>1. Written(seg, i, eol) = <<Fence>> \o lang \o <<eol>> \o body \o closing
        BY <1>4 DEF Written, w
    <2>2. BlockOf(seg, i) = <<found>>
        BY <1>4 DEF BlockOf, w
    <2>3. seg.lang \in {"", "py", "js"} /\ seg.empty \in BOOLEAN /\ seg.closed \in BOOLEAN
        <3>1. seg # Prose
            BY <1>4 DEF Prose
        <3>2. seg \in Block
            BY <3>1
        <3> QED BY <3>2 DEF Block, Py
    <2>4. /\ <<Fence>> \in Seq(Tokens) /\ lang \in Seq(Tokens) /\ <<eol>> \in Seq(Tokens)
          /\ body \in Seq(Tokens) /\ closing \in Seq(Tokens) /\ code \in Seq(Tokens)
        <3>1. <<w, eol>> \in Seq(Tokens) /\ <<Fence, eol>> \in Seq(Tokens) /\ <<w, "nl">> \in Seq(Tokens)
            BY <1>1, Pair
        <3>2. seg.lang # "" => seg.lang \in Tokens
            BY <2>3 DEF Tokens, Leads, Py
        <3>3. \A x \in Tokens : <<x>> \in Seq(Tokens)
            OBVIOUS
        <3> QED BY <1>1, <3>1, <3>2, <3>3, EmptySeq
    <2> DEFINE t1 == t \o <<Fence>>
               t2 == t1 \o lang
               t3 == t2 \o <<eol>>
               t4 == t3 \o body
               t5 == t4 \o closing
    <2>5. Written(seg, i, eol) \in Seq(Tokens) /\ t \o Written(seg, i, eol) = t5
        <3> HIDE DEF lang, body, closing
        <3>1. PICK one \in Seq(Tokens), line \in Seq(Tokens) : one = <<Fence>> /\ line = <<eol>>
            BY <2>4
        <3>2. /\ one \o lang \o line \o body \o closing \in Seq(Tokens)
              /\ t \o (one \o lang \o line \o body \o closing) =
                    ((((t \o one) \o lang) \o line) \o body) \o closing
            <4>1. /\ lang \in Seq(Tokens) /\ body \in Seq(Tokens) /\ closing \in Seq(Tokens)
                  /\ t \in Seq(Tokens)
                BY <2>4
            <4>2. \A x, y \in Seq(Tokens) : x \o y \in Seq(Tokens)
                BY ConcatProperties
            <4>3. \A x, y \in Seq(Tokens) : t \o (x \o y) = (t \o x) \o y
                BY ConcatBehind
            <4>4. one \o lang \in Seq(Tokens) /\ one \o lang \o line \in Seq(Tokens)
                BY <4>1, <4>2
            <4>5. one \o lang \o line \o body \in Seq(Tokens)
                BY <4>1, <4>2, <4>4
            <4>6. one \o lang \o line \o body \o closing \in Seq(Tokens)
                BY <4>1, <4>2, <4>5
            <4> QED BY <4>1, <4>3, <4>4, <4>5, <4>6
        <3> QED BY <2>1, <3>1, <3>2
    <2>6. /\ t1 \in Seq(Tokens) /\ t2 \in Seq(Tokens) /\ t3 \in Seq(Tokens) /\ t4 \in Seq(Tokens)
        <3> HIDE DEF lang, body, closing
        <3> QED BY <2>4, ConcatProperties
    <2> HIDE DEF t2, t3, t4, t5
    <2>7. Seen(t1).in = "line" /\ Seen(t1).lang = <<>> /\ Seen(t1).blocks = Seen(t).blocks
        BY <1>1, <1>2, ReadsCases
    <2> HIDE DEF t1
    <2>8. Seen(t2).in = "line" /\ Seen(t2).lang = lang /\ Seen(t2).blocks = Seen(t).blocks
        <3>1. CASE seg.lang = ""
            BY <2>6, <2>7, <3>1, ConcatEmptySeq DEF t2
        <3>2. CASE seg.lang # ""
            <4>1. seg.lang \in Tokens /\ Norm(seg.lang) = seg.lang /\ seg.lang \notin {"nl", Fence}
                BY <2>3, <3>2 DEF Norm, Fence, Tokens, Leads, Py
            <4>2. Seen(t2) = Reads(Seen(t1), seg.lang)
                BY <1>2, <2>6, <3>2, <4>1 DEF t2
            <4>3. Seen(t1) \in Scans
                BY <2>6, SeenType
            <4>4. /\ Seen(t2).in = "line" /\ Seen(t2).lang = Append(Seen(t1).lang, seg.lang)
                  /\ Seen(t2).blocks = Seen(t1).blocks
                BY <2>7, <4>1, <4>2, <4>3, ReadsCases
            <4>5. lang = <<seg.lang>>
                BY <3>2
            <4>6. \A x \in Tokens : Append(<<>>, x) = <<x>>
                OBVIOUS
            <4> HIDE DEF lang
            <4> QED BY <2>7, <4>1, <4>4, <4>5, <4>6
        <3> QED BY <3>1, <3>2
    <2> HIDE DEF lang
    <2>9. /\ Seen(t3).in = "block" /\ Seen(t3).lang = lang /\ Seen(t3).code = <<>>
          /\ Seen(t3).blocks = Seen(t).blocks
        <3>1. Seen(t3) = Reads(Seen(t2), "nl")
            BY <1>1, <1>2, <2>6 DEF t3
        <3> QED BY <1>1, <1>2, <2>6, <2>8, <3>1, ReadsCases
    <2>10. /\ Seen(t4).in = "block" /\ Seen(t4).lang = lang /\ Seen(t4).code = code
           /\ Seen(t4).blocks = Seen(t).blocks
        <3>1. CASE seg.empty
            BY <2>6, <2>9, <3>1, ConcatEmptySeq DEF t4
        <3>2. CASE ~seg.empty
            <4>1. t3 \o <<w>> \in Seq(Tokens) /\ t4 = (t3 \o <<w>>) \o <<eol>>
                <5>1. t3 \in Seq(Tokens) /\ w \in Tokens /\ eol \in Tokens
                    BY <1>1, <2>6
                <5>2. t3 \o <<w, eol>> = (t3 \o <<w>>) \o <<eol>> /\ t3 \o <<w>> \in Seq(Tokens)
                    BY ONLY <5>1, PairBehind
                <5>3. t4 = t3 \o <<w, eol>>
                    BY <3>2 DEF t4
                <5> QED BY <5>2, <5>3
            <4> DEFINE u == t3 \o <<w>>
            <4>2. Seen(u) = Reads(Seen(t3), w)
                BY <1>1, <1>2, <2>6
            <4>3. /\ Seen(u).in = "block" /\ Seen(u).lang = lang /\ Seen(u).code = Append(<<>>, w)
                  /\ Seen(u).blocks = Seen(t).blocks
                BY <1>1, <1>2, <2>6, <2>9, <4>2, ReadsCases
            <4> HIDE DEF u
            <4>4. Seen(t4) = Reads(Seen(u), "nl") /\ Seen(u) \in Scans
                BY <1>1, <1>2, <4>1 DEF u
            <4>5. /\ Seen(t4).in = "block" /\ Seen(t4).lang = Seen(u).lang
                  /\ Seen(t4).code = Append(Seen(u).code, "nl")
                  /\ Seen(t4).blocks = Seen(u).blocks
                <5>1. "nl" \in Tokens /\ "nl" # Fence
                    BY <1>1
                <5> QED BY <4>3, <4>4, <5>1, ReadsCases
            <4>6. Append(Append(<<>>, w), "nl") = <<w, "nl">>
                <5>1. Append(<<>>, w) = <<w>> /\ "nl" \in Tokens
                    BY <1>1 DEF Tokens, Eols
                <5> QED BY <1>1, <5>1, Pair
            <4> QED BY <3>2, <4>3, <4>5, <4>6
        <3> QED BY <2>3, <3>1, <3>2
    <2> HIDE DEF code
    <2>11. Found(Seen(t4)) = Seen(t).blocks \o <<found>>
        <3>1. found \in FoundBlocks /\ Seen(t).blocks \in Seq(FoundBlocks)
            BY <1>2, <2>4 DEF FoundBlocks, Scans
        <3>2. Append(Seen(t).blocks, found) = Seen(t).blocks \o <<found>>
            BY <3>1, AppendIsConcat
        <3> QED BY <2>10, <3>2 DEF Found
    <2>12. CASE seg.closed
        <3>1. t4 \o <<Fence>> \in Seq(Tokens) /\ t5 = (t4 \o <<Fence>>) \o <<eol>>
            <4>1. t5 = t4 \o <<Fence, eol>>
                BY <2>12 DEF t5
            <4>2. t4 \o <<Fence, eol>> = (t4 \o <<Fence>>) \o <<eol>>
                <5>1. t4 \in Seq(Tokens) /\ Fence \in Tokens /\ eol \in Tokens
                    BY <1>1, <2>6
                <5> QED BY ONLY <5>1, PairBehind
            <4>3. t4 \o <<Fence>> \in Seq(Tokens)
                BY <1>1, <1>2, <2>6
            <4> QED BY <4>1, <4>2, <4>3, Zenon
        <3> DEFINE u == t4 \o <<Fence>>
        <3>2. Seen(u) = Reads(Seen(t4), Fence)
            BY <1>1, <1>2, <2>6
        <3>3. Seen(u).in = "text" /\ Seen(u).blocks = Found(Seen(t4))
            BY <1>1, <1>2, <2>6, <2>10, <3>2, ReadsCases
        <3> HIDE DEF u
        <3>4. Seen(t5) = Reads(Seen(u), "nl") /\ Seen(u) \in Scans
            BY <1>1, <1>2, <3>1 DEF u
        <3>5. Seen(t5) = Seen(u)
            BY <1>1, <3>3, <3>4, ReadsCases
        <3> QED BY <2>2, <2>5, <2>11, <3>3, <3>5 DEF Result
    <2>13. CASE ~seg.closed
        <3>1. t5 = t4
            BY <2>6, <2>13, ConcatEmptySeq DEF t5
        <3> QED BY <2>2, <2>5, <2>10, <2>11, <2>13, <3>1 DEF Result
    <2> QED BY <2>3, <2>12, <2>13
<1> QED BY <1>3, <1>4

--------------------------------------------------------------------------------
(* Strip *)

WordsOf(text) == {i \in DOMAIN text : text[i] \notin Eols}

LEMMA StripSpan ==
    ASSUME NEW S, NEW text \in Seq(S), WordsOf(text) # {}
    PROVE  \E f, l \in WordsOf(text) :
              /\ \A j \in WordsOf(text) : f <= j /\ j <= l
              /\ Strip(text) = SubSeq(text, f, l)
<1> DEFINE W == WordsOf(text)
<1>1. Len(text) \in Nat /\ W \in SUBSET (1..Len(text))
    BY LenProperties DEF WordsOf
<1> DEFINE f == CHOOSE i \in W : \A j \in W : i <= j
           l == CHOOSE i \in W : \A j \in W : i >= j
<1>2. Strip(text) = SubSeq(text, f, l)
    BY DEF Strip, WordsOf
<1> HIDE DEF W
<1>3. W # {}
    BY DEF W
<1>4. \E i \in W : \A j \in W : i <= j
    <2>1. W \in SUBSET Nat
        BY <1>1
    <2> QED BY <1>3, <2>1, LeastNat
<1>5. \E i \in W : \A j \in W : i >= j
    BY <1>1, <1>3, GreatestNat
<1>6. f \in W /\ \A j \in W : f <= j
    BY <1>4
<1>7. l \in W /\ \A j \in W : l >= j
    BY <1>5
<1> HIDE DEF f, l
<1>8. \A j \in W : f <= j /\ j <= l
    BY <1>1, <1>6, <1>7
<1> QED BY <1>2, <1>6, <1>7, <1>8 DEF W

LEMMA StripNone == ASSUME NEW text, WordsOf(text) = {} PROVE Strip(text) = <<>>
BY DEF Strip, WordsOf

LEMMA StripType == ASSUME NEW S PROVE \A text \in Seq(S) : Strip(text) \in Seq(S)
<1> SUFFICES ASSUME NEW text \in Seq(S) PROVE Strip(text) \in Seq(S)
    OBVIOUS
<1>1. CASE WordsOf(text) = {}
    BY <1>1, StripNone, EmptySeq
<1>2. CASE WordsOf(text) # {}
    <2>1. PICK f \in WordsOf(text), l \in WordsOf(text) : Strip(text) = SubSeq(text, f, l)
        BY <1>2, StripSpan
    <2>2. f \in 1..Len(text) /\ l \in 1..Len(text)
        BY LenProperties DEF WordsOf
    <2>3. \A i \in f..l : text[i] \in S
        BY <2>2, ElementOfSeq, LenProperties
    <2> QED BY <2>1, <2>2, LenProperties, SubSeqProperties
<1> QED BY <1>1, <1>2

LEMMA StripEmpty == Strip(<<>>) = <<>>
<1>1. WordsOf(<<>>) = {}
    BY DEF WordsOf
<1> QED BY <1>1, StripNone

\* A text that begins with a word is cut at its end only.
LEMMA StripBegins ==
    ASSUME NEW S, NEW text \in Seq(S), Len(text) >= 1, text[1] \notin Eols
    PROVE  \E l \in 1..Len(text) :
              /\ text[l] \notin Eols
              /\ \A j \in 1..Len(text) : text[j] \notin Eols => j <= l
              /\ Strip(text) = SubSeq(text, 1, l) /\ Strip(text) \in Seq(S) /\ Len(Strip(text)) = l
              /\ \A j \in 1..l : Strip(text)[j] = text[j]
<1>1. Len(text) \in Nat /\ DOMAIN text = 1..Len(text)
    BY LenProperties
<1>2. 1 \in WordsOf(text)
    BY <1>1 DEF WordsOf
<1>3. PICK f \in WordsOf(text), l \in WordsOf(text) :
          /\ \A j \in WordsOf(text) : f <= j /\ j <= l
          /\ Strip(text) = SubSeq(text, f, l)
    BY <1>2, StripSpan
<1>4. /\ f \in 1..Len(text) /\ l \in 1..Len(text) /\ text[l] \notin Eols
      /\ \A j \in 1..Len(text) : text[j] \notin Eols => j <= l
    BY <1>1, <1>3 DEF WordsOf
<1>5. f = 1
    BY <1>1, <1>2, <1>3, <1>4
<1>6. /\ SubSeq(text, 1, l) \in Seq(S) /\ Len(SubSeq(text, 1, l)) = l
      /\ \A j \in 1..l : SubSeq(text, 1, l)[j] = text[j]
    <2>1. \A i \in 1..l : text[i] \in S
        BY <1>1, <1>4, ElementOfSeq
    <2> QED BY <1>1, <1>4, <2>1, SubSeqProperties
<1> QED BY <1>3, <1>4, <1>5, <1>6

LEMMA StripWord ==
    ASSUME NEW S, NEW word \in S, NEW eol \in S, word \notin Eols, eol \in Eols
    PROVE  Strip(<<word, eol>>) = <<word>>
<1> DEFINE text == <<word, eol>>
<1>1. text \in Seq(S) /\ Len(text) = 2 /\ text[1] = word /\ text[2] = eol
    BY Pair
<1> HIDE DEF text
<1>2. PICK l \in 1..Len(text) :
          /\ text[l] \notin Eols
          /\ \A j \in 1..Len(text) : text[j] \notin Eols => j <= l
          /\ Strip(text) = SubSeq(text, 1, l) /\ Strip(text) \in Seq(S) /\ Len(Strip(text)) = l
          /\ \A j \in 1..l : Strip(text)[j] = text[j]
    <2>1. Len(text) >= 1 /\ text[1] \notin Eols
        BY <1>1
    <2> QED BY <1>1, <2>1, StripBegins
<1>3. l = 1
    BY <1>1, <1>2
<1>4. <<word>> \in Seq(S) /\ Len(<<word>>) = 1 /\ <<word>>[1] = word
    OBVIOUS
<1>5. \A i \in 1..1 : Strip(text)[i] = <<word>>[i]
    BY <1>1, <1>2, <1>3, <1>4
<1> DEFINE r == <<word>>
<1> HIDE DEF r
<1>6. r \in Seq(S) /\ Len(r) = 1 /\ \A i \in 1..1 : Strip(text)[i] = r[i]
    BY <1>4, <1>5 DEF r
<1>7. Strip(text) = r
    BY <1>2, <1>3, <1>6, SeqEqual
<1> QED BY <1>7 DEF r, text

--------------------------------------------------------------------------------
(* The text of a message, and the blocks found in it *)

Lead(m) == IF m.lead \in {"", "/code"} THEN <<>> ELSE <<m.lead, m.eol>>
Pieces(m) == [i \in DOMAIN m.segs |-> Written(m.segs[i], i, m.eol)]
BlocksOf(m) == [i \in DOMAIN m.segs |-> BlockOf(m.segs[i], i)]

\* The shape of a message.
LEMMA Shape ==
    ASSUME NEW m \in Messages
    PROVE  /\ m.bot \in BOOLEAN /\ m.lead \in Leads /\ m.eol \in Eols
           /\ Len(m.segs) \in Nat /\ DOMAIN m.segs = 1..Len(m.segs)
           /\ 1..Len(m.segs) \subseteq DOMAIN Codes
           /\ \A i \in 1..Len(m.segs) : m.segs[i] \in Block \cup {Prose}
           /\ \A i \in 1..Len(m.segs) : i < Len(m.segs) => m.segs[i].closed
           /\ Len(m.files) \in Nat /\ DOMAIN m.files = 1..Len(m.files)
           /\ 1..Len(m.files) \subseteq DOMAIN Files
           /\ \A i \in 1..Len(m.files) : m.files[i] \in {"other", "file", "empty_file", "unreadable"}
           /\ m.lead = "/code" => ~m.bot /\ m.files = <<>>
<1>1. /\ m.bot \in BOOLEAN /\ m.lead \in Leads /\ m.eol \in Eols
      /\ m.segs \in Segments /\ m.files \in Attachments
      /\ Len(m.segs) + Len(m.files) <= MaxParts
      /\ m.lead = "/code" => ~m.bot /\ m.files = <<>>
    BY DEF Messages
<1>2. PICK n \in 0..MaxParts : /\ m.segs \in [1..n -> Block \cup {Prose}]
                               /\ \A i \in 1..(n - 1) : m.segs[i].closed
    BY <1>1 DEF Segments
<1>3. PICK k \in 0..MaxParts : m.files \in [1..k -> {"other", "file", "empty_file", "unreadable"}]
    BY <1>1 DEF Attachments
<1>4. n \in Nat /\ k \in Nat /\ MaxParts \in Nat
    BY ListenerAssumption
<1>5. m.segs \in Seq(Block \cup {Prose}) /\ DOMAIN m.segs = 1..n
    BY <1>2, <1>4, SeqDef
<1>6. m.files \in Seq({"other", "file", "empty_file", "unreadable"}) /\ DOMAIN m.files = 1..k
    BY <1>3, <1>4, SeqDef
<1>7. Len(m.segs) = n
    BY <1>4, <1>5, LenProperties
<1>8. Len(m.files) = k
    BY <1>4, <1>6, LenProperties
<1>9. /\ DOMAIN Codes = 1..Len(Codes) /\ DOMAIN Files = 1..Len(Files)
      /\ Len(Codes) \in Nat /\ Len(Files) \in Nat
      /\ Len(Codes) >= MaxParts /\ Len(Files) >= MaxParts
    BY ListenerAssumption, LenProperties
<1>10. 1..n \subseteq DOMAIN Codes /\ 1..k \subseteq DOMAIN Files
    BY <1>1, <1>4, <1>7, <1>8, <1>9
<1>11. \A i \in 1..n : m.segs[i] \in Block \cup {Prose}
    BY <1>2
<1>12. \A i \in 1..n : i < n => m.segs[i].closed
    BY <1>2, <1>4
<1>13. \A i \in 1..k : m.files[i] \in {"other", "file", "empty_file", "unreadable"}
    BY <1>3
<1> QED BY <1>1, <1>4, <1>5, <1>6, <1>7, <1>8, <1>10, <1>11, <1>12, <1>13

LEMMA WrittenType ==
    ASSUME NEW m \in Messages, NEW i \in 1..Len(m.segs)
    PROVE  Written(m.segs[i], i, m.eol) \in Seq(Tokens)
<1>1. Seen(<<>>).in = "text"
    BY SeenEmpty DEF Start
<1>2. <<>> \in Seq(Tokens)
    BY EmptySeq
<1>3. m.segs[i] \in Block \cup {Prose} /\ i \in DOMAIN Codes /\ m.eol \in Eols
    BY Shape
<1> QED BY <1>1, <1>2, <1>3, SegmentSeen

LEMMA LeadType == ASSUME NEW m \in Messages PROVE Lead(m) \in Seq(Tokens)
<1>1. m.lead \in Tokens /\ m.eol \in Tokens
    BY Shape DEF Tokens
<1> QED BY <1>1, Pair, EmptySeq DEF Lead

LEMMA TextIs ==
    ASSUME NEW m \in Messages
    PROVE  /\ Text(m) = Lead(m) \o Upto(Pieces(m), Len(m.segs))
           /\ Upto(Pieces(m), Len(m.segs)) \in Seq(Tokens) /\ Text(m) \in Seq(Tokens)
<1>1. Len(m.segs) \in Nat /\ DOMAIN m.segs = 1..Len(m.segs)
    BY Shape
<1>2. /\ Pieces(m) = [i \in 1..Len(m.segs) |-> Pieces(m)[i]]
      /\ \A i \in 1..Len(m.segs) : Pieces(m)[i] \in Seq(Tokens)
    BY <1>1, WrittenType DEF Pieces
<1>3. FlattenSeq(Pieces(m)) = Upto(Pieces(m), Len(m.segs))
    BY <1>1, <1>2, UptoAll
<1>4. Upto(Pieces(m), Len(m.segs)) \in Seq(Tokens)
    BY <1>1, <1>2, UptoType
<1>5. Text(m) = Lead(m) \o FlattenSeq(Pieces(m))
    BY DEF Text, Lead, Pieces
<1> QED BY <1>3, <1>4, <1>5, LeadType, ConcatProperties

LEMMA BlockOfType ==
    ASSUME NEW m \in Messages, NEW i \in 1..Len(m.segs)
    PROVE  BlockOf(m.segs[i], i) \in Seq(FoundBlocks)
<1> DEFINE seg == m.segs[i]
<1>1. seg \in Block \cup {Prose} /\ i \in DOMAIN Codes
    BY Shape
<1> HIDE DEF seg
<1>2. CASE seg.lang = "prose"
    BY <1>2, EmptySeq DEF BlockOf, seg
<1>3. CASE seg.lang # "prose"
    <2>1. seg \in Block
        BY <1>1, <1>3 DEF Prose
    <2>2. seg.lang # "" => seg.lang \in Tokens
        BY <2>1 DEF Block, Tokens, Leads, Py
    <2>3. "nl" \in Tokens /\ Codes[i] \in Tokens
        BY <1>1, CodesAreWords DEF Tokens, Eols
    <2>4. (IF seg.lang = "" THEN <<>> ELSE <<seg.lang>>) \in Seq(Tokens)
        <3>1. \A x \in Tokens : <<x>> \in Seq(Tokens)
            BY Single
        <3> QED BY <2>2, <3>1, EmptySeq
    <2>5. (IF seg.empty THEN <<>> ELSE <<Codes[i], "nl">>) \in Seq(Tokens)
        BY <2>3, Pair, EmptySeq
    <2> DEFINE found == [lang |-> IF seg.lang = "" THEN <<>> ELSE <<seg.lang>>,
                         code |-> IF seg.empty THEN <<>> ELSE <<Codes[i], "nl">>]
    <2>6. found \in FoundBlocks
        BY <2>4, <2>5 DEF FoundBlocks
    <2>7. BlockOf(seg, i) = <<found>>
        BY <1>3 DEF BlockOf
    <2> HIDE DEF found
    <2> QED BY <2>6, <2>7 DEF seg
<1> QED BY <1>2, <1>3

\* Neither a command nor /code.
Plain(m) == m.lead \in {"", Py}

LEMMA LeadSeen ==
    ASSUME NEW m \in Messages, Plain(m)
    PROVE  Seen(Lead(m)) = Start
<1>1. CASE m.lead = ""
    BY <1>1, SeenEmpty DEF Lead
<1>2. CASE m.lead = Py
    <2>1. /\ m.lead \in Tokens /\ m.eol \in Tokens /\ m.lead \notin {Fence, "crlf"}
          /\ Norm(m.lead) = m.lead /\ Norm(m.eol) = "nl" /\ "nl" # Fence /\ "nl" \in Tokens
        BY <1>2, Shape DEF Tokens, Norm, Eols, Py, Fence
    <2>2. Lead(m) = <<m.lead, m.eol>>
        BY <1>2 DEF Lead, Py
    <2>3. <<>> \in Seq(Tokens) /\ <<m.lead>> \in Seq(Tokens)
        <3>1. \A x \in Tokens : <<x>> \in Seq(Tokens)
            BY Single
        <3> QED BY <2>1, <3>1, EmptySeq
    <2>4. <<>> \o <<m.lead>> = <<m.lead>> /\ <<m.lead>> \o <<m.eol>> = Lead(m)
        BY <2>1, <2>2, <2>3, ConcatEmptySeq, Pair
    <2>5. Start \in Scans /\ Start.in = "text"
        BY StartType DEF Start
    <2>6. Seen(<<m.lead>>) = Reads(Start, m.lead)
        <3>1. Seen(<<>> \o <<m.lead>>) = Reads(Seen(<<>>), Norm(m.lead))
            BY <2>1, <2>3, SeenAppend
        <3> QED BY <2>1, <2>4, <3>1, SeenEmpty
    <2>7. Reads(Start, m.lead) = Start
        BY <2>1, <2>5, ReadsCases
    <2>8. Seen(Lead(m)) = Reads(Start, "nl")
        <3>1. Seen(<<m.lead>> \o <<m.eol>>) = Reads(Seen(<<m.lead>>), Norm(m.eol))
            BY <2>1, <2>3, SeenAppend
        <3> QED BY <2>1, <2>4, <2>6, <2>7, <3>1
    <2>9. Reads(Start, "nl") = Start
        BY <2>1, <2>5, ReadsCases
    <2> QED BY <2>8, <2>9
<1> QED BY <1>1, <1>2 DEF Plain

\* What has been found when k of the segments have been read.
SeenRight(m, k) ==
    LET scan == Seen(Lead(m) \o Upto(Pieces(m), k))
    IN  /\ k < Len(m.segs) => scan.in = "text"
        /\ Result(scan) = Upto(BlocksOf(m), k)

LEMMA SeenRightNone == ASSUME NEW m \in Messages, Plain(m) PROVE SeenRight(m, 0)
<1>1. Upto(Pieces(m), 0) = <<>> /\ Upto(BlocksOf(m), 0) = <<>>
    BY UptoNone
<1>2. Lead(m) \o <<>> = Lead(m)
    BY LeadType, ConcatEmptySeq
<1>3. Seen(Lead(m) \o Upto(Pieces(m), 0)) = Start
    BY <1>1, <1>2, LeadSeen
<1>4. Start.in = "text" /\ Start.blocks = <<>>
    BY DEF Start
<1> QED BY <1>1, <1>3, <1>4 DEF SeenRight, Result

LEMMA PiecesAre ==
    ASSUME NEW m \in Messages, NEW i \in 1..Len(m.segs)
    PROVE  /\ Pieces(m)[i] = Written(m.segs[i], i, m.eol) /\ Pieces(m)[i] \in Seq(Tokens)
           /\ BlocksOf(m)[i] = BlockOf(m.segs[i], i) /\ BlocksOf(m)[i] \in Seq(FoundBlocks)
<1>1. i \in DOMAIN m.segs
    BY Shape
<1>2. Pieces(m)[i] = Written(m.segs[i], i, m.eol) /\ BlocksOf(m)[i] = BlockOf(m.segs[i], i)
    BY <1>1 DEF Pieces, BlocksOf
<1>3. Written(m.segs[i], i, m.eol) \in Seq(Tokens)
    BY WrittenType
<1>4. BlockOf(m.segs[i], i) \in Seq(FoundBlocks)
    BY BlockOfType
<1> QED BY <1>2, <1>3, <1>4

LEMMA SeenRightNext ==
    ASSUME NEW m \in Messages, NEW k \in Nat, k + 1 <= Len(m.segs), SeenRight(m, k)
    PROVE  SeenRight(m, k + 1)
<1> DEFINE n == Len(m.segs)
           w == Pieces(m)
           b == BlocksOf(m)
           t == Lead(m) \o Upto(w, k)
<1>1. n \in Nat
    BY Shape
<1>2. /\ k < n /\ k + 1 \in 1..n /\ \A i \in 1..(k + 1) : i \in 1..n
      /\ \A i \in 1..k : i \in 1..n
    BY <1>1
<1>3. Seen(t).in = "text" /\ Result(Seen(t)) = Upto(b, k)
    BY <1>2 DEF SeenRight
<1>4. Seen(t).blocks = Upto(b, k)
    BY <1>3 DEF Result
<1>5. \A i \in 1..n : w[i] \in Seq(Tokens) /\ b[i] \in Seq(FoundBlocks)
    BY PiecesAre
<1> HIDE DEF n, w, b
<1>6. Upto(w, k) \in Seq(Tokens)
    BY <1>2, <1>5, UptoType
<1>7. t \in Seq(Tokens)
    BY <1>6, LeadType, ConcatProperties
<1>8. Upto(w, k + 1) = Upto(w, k) \o w[k + 1]
    <2>1. \A i \in 1..(k + 1) : w[i] \in Seq(Tokens)
        BY <1>2, <1>5
    <2> QED BY <2>1, UptoNext
<1>9. Upto(b, k + 1) = Upto(b, k) \o b[k + 1]
    <2>1. \A i \in 1..(k + 1) : b[i] \in Seq(FoundBlocks)
        BY <1>2, <1>5
    <2> QED BY <2>1, UptoNext
<1>10. Lead(m) \o Upto(w, k + 1) = t \o w[k + 1]
    <2>1. \A x, y \in Seq(Tokens) : Lead(m) \o (x \o y) = (Lead(m) \o x) \o y
        BY LeadType, ConcatBehind
    <2> QED BY <1>2, <1>5, <1>6, <1>8, <2>1
<1> HIDE DEF t
<1> DEFINE seg == m.segs[k + 1]
<1>11. /\ seg \in Block \cup {Prose} /\ k + 1 \in DOMAIN Codes /\ m.eol \in Eols
       /\ k + 1 < n => seg.closed
    BY <1>2, Shape DEF n
<1>12. w[k + 1] = Written(seg, k + 1, m.eol) /\ b[k + 1] = BlockOf(seg, k + 1)
    BY <1>2, PiecesAre DEF n, w, b
<1> HIDE DEF seg
<1>13. /\ seg.closed => Seen(t \o w[k + 1]).in = "text"
       /\ Result(Seen(t \o w[k + 1])) = Seen(t).blocks \o b[k + 1]
    BY <1>3, <1>7, <1>11, <1>12, SegmentSeen
<1> QED BY <1>4, <1>9, <1>10, <1>11, <1>13 DEF SeenRight, n, w, b

\* The blocks found in a message that is not a command are those that it was written with.
LEMMA BlocksFound ==
    ASSUME NEW m \in Messages, Plain(m)
    PROVE  Blocks(Normalize(Text(m))) = Upto(BlocksOf(m), Len(m.segs))
<1> DEFINE n == Len(m.segs)
           T == {k \in Nat : k <= n => SeenRight(m, k)}
<1>1. n \in Nat
    BY Shape
<1> HIDE DEF n
<1>2. 0 \in T
    BY SeenRightNone
<1>3. ASSUME NEW k \in T PROVE k + 1 \in T
    <2>1. k + 1 <= n => k <= n
        BY <1>1
    <2> QED BY <2>1, SeenRightNext DEF n
<1>4. T = Nat
    <2>1. T \in SUBSET Nat
        OBVIOUS
    <2> HIDE DEF T
    <2> QED BY <1>2, <1>3, <2>1, AllNat
<1>5. SeenRight(m, n)
    BY <1>1, <1>4
<1>6. Result(Seen(Text(m))) = Upto(BlocksOf(m), n)
    BY <1>5, TextIs DEF SeenRight, n
<1>7. Blocks(Normalize(Text(m))) = Result(Seen(Text(m)))
    BY DEF Blocks, Result, Seen
<1> QED BY <1>6, <1>7 DEF n

--------------------------------------------------------------------------------
(* The code taken from the blocks *)

\* What a block yields.
Taken(allow) ==
    [block \in FoundBlocks |->
        IF IsSupported(block.lang, allow) /\ Strip(block.code) # <<>>
        THEN <<Strip(block.code)>> ELSE <<>>]

Picked(blocks, allow) == FlattenSeq(Mapped(blocks, Taken(allow)))

LEMMA TakenType == ASSUME NEW allow PROVE Taken(allow) \in [FoundBlocks -> Seq(Seq(Tokens))]
<1>1. ASSUME NEW block \in FoundBlocks
      PROVE  (IF IsSupported(block.lang, allow) /\ Strip(block.code) # <<>>
              THEN <<Strip(block.code)>> ELSE <<>>) \in Seq(Seq(Tokens))
    <2>1. Strip(block.code) \in Seq(Tokens)
        <3>1. block.code \in Seq(Tokens)
            BY DEF FoundBlocks
        <3> QED BY <3>1, StripType
    <2>2. \A s \in Seq(Tokens) : <<s>> \in Seq(Seq(Tokens))
        BY Single
    <2> QED BY <2>1, <2>2, EmptySeq
<1> QED BY <1>1 DEF Taken

LEMMA PickedEmpty == ASSUME NEW allow PROVE Picked(<<>>, allow) = <<>>
<1>1. Mapped(<<>>, Taken(allow)) = <<>>
    BY DEF Mapped
<1> QED BY <1>1, FlattenEmpty DEF Picked

LEMMA PickedAppend ==
    ASSUME NEW allow, NEW block \in FoundBlocks
    PROVE  \A blocks \in Seq(FoundBlocks) :
              Picked(blocks \o <<block>>, allow) = Picked(blocks, allow) \o Taken(allow)[block]
<1> SUFFICES ASSUME NEW blocks \in Seq(FoundBlocks)
             PROVE  Picked(blocks \o <<block>>, allow) = Picked(blocks, allow) \o Taken(allow)[block]
    OBVIOUS
<1> DEFINE h == Taken(allow)
           s == Mapped(blocks, h)
<1>1. h \in [FoundBlocks -> Seq(Seq(Tokens))]
    BY TakenType
<1> HIDE DEF h
<1>2. blocks \o <<block>> = Append(blocks, block)
    BY AppendIsConcat
<1>3. Mapped(Append(blocks, block), h) = Append(s, h[block])
    BY <1>1, MappedAppend
<1>4. s \in Seq(Seq(Seq(Tokens))) /\ h[block] \in Seq(Seq(Tokens))
    <2>1. \A r \in Seq(FoundBlocks) : Mapped(r, h) \in Seq(Seq(Seq(Tokens)))
        BY <1>1, MappedType
    <2> QED BY <1>1, <2>1
<1> HIDE DEF s
<1>5. FlattenSeq(Append(s, h[block])) = FlattenSeq(s) \o h[block]
    <2>1. \A x \in Seq(Seq(Tokens)) : FlattenSeq(Append(s, x)) = FlattenSeq(s) \o x
        BY <1>4, FlattenAppend
    <2> QED BY <1>4, <2>1
<1> QED BY <1>2, <1>3, <1>5 DEF Picked, s, h

LEMMA PickedType ==
    ASSUME NEW allow, NEW blocks \in Seq(FoundBlocks)
    PROVE  Picked(blocks, allow) \in Seq(Seq(Tokens))
<1> DEFINE s == Mapped(blocks, Taken(allow))
<1>1. s \in Seq(Seq(Seq(Tokens)))
    <2>1. \A r \in Seq(FoundBlocks) : Mapped(r, Taken(allow)) \in Seq(Seq(Seq(Tokens)))
        BY TakenType, MappedType
    <2> QED BY <2>1
<1> HIDE DEF s
<1>2. FlattenSeq(s) \in Seq(Seq(Tokens))
    BY <1>1, FlattenType
<1> QED BY <1>2 DEF s, Picked

LEMMA ExtractAllIs ==
    ASSUME NEW text, NEW allow, NEW blocks \in Seq(FoundBlocks), Blocks(Normalize(text)) = blocks
    PROVE  ExtractAll(text, allow) = Picked(blocks, allow)
<1>1. ASSUME NEW i \in DOMAIN blocks
      PROVE  Taken(allow)[blocks[i]] =
                IF IsSupported(blocks[i].lang, allow) /\ Strip(blocks[i].code) # <<>>
                THEN <<Strip(blocks[i].code)>> ELSE <<>>
    <2>1. blocks[i] \in FoundBlocks
        BY LenProperties, ElementOfSeq
    <2> QED BY <2>1 DEF Taken
<1> DEFINE yields == [i \in DOMAIN blocks |->
                        IF IsSupported(blocks[i].lang, allow) /\ Strip(blocks[i].code) # <<>>
                        THEN <<Strip(blocks[i].code)>> ELSE <<>>]
<1>2. Mapped(blocks, Taken(allow)) = yields
    BY <1>1 DEF Mapped
<1>3. ExtractAll(text, allow) = FlattenSeq(yields)
    BY DEF ExtractAll
<1> HIDE DEF yields
<1> QED BY <1>2, <1>3 DEF Picked

\* The code of the segments that are to be run, each by itself.
Wanted(m) == [i \in DOMAIN m.segs |-> IF i \in Runnable(m) THEN <<<<Codes[i]>>>> ELSE <<>>]

LEMMA WantedIs ==
    ASSUME NEW m \in Messages, NEW i \in 1..Len(m.segs)
    PROVE  /\ Wanted(m)[i] = (IF i \in Runnable(m) THEN <<<<Codes[i]>>>> ELSE <<>>)
           /\ Wanted(m)[i] \in Seq(Seq(Tokens)) /\ <<Codes[i]>> \in Seq(Tokens)
<1>1. i \in DOMAIN m.segs /\ Codes[i] \in Tokens
    BY Shape, CodesAreWords
<1>2. <<Codes[i]>> \in Seq(Tokens)
    BY <1>1, Single
<1>3. <<<<Codes[i]>>>> \in Seq(Seq(Tokens))
    BY <1>2, Single
<1> QED BY <1>1, <1>2, <1>3, EmptySeq DEF Wanted

LEMMA SingleOf == ASSUME NEW S, NEW x, <<x>> \in Seq(S) PROVE x \in S
<1> DEFINE s == <<x>>
<1>1. s \in Seq(S) /\ Len(s) = 1 /\ s[1] = x
    OBVIOUS
<1> HIDE DEF s
<1> QED BY <1>1, ElementOfSeq

\* A segment's block yields its code if it is to be run.
LEMMA YieldIsWanted ==
    ASSUME NEW m \in Messages, NEW i \in 1..Len(m.segs), NEW blocks \in Seq(FoundBlocks)
    PROVE  Picked(blocks \o BlocksOf(m)[i], allow_unmarked) =
              Picked(blocks, allow_unmarked) \o Wanted(m)[i]
<1> DEFINE seg == m.segs[i]
           b == BlocksOf(m)[i]
<1>1. /\ i \in DOMAIN m.segs /\ i \in DOMAIN Codes /\ seg \in Block \cup {Prose}
      /\ b = BlockOf(seg, i) /\ b \in Seq(FoundBlocks)
    BY Shape, PiecesAre
<1>2. i \in Runnable(m) <=> /\ seg.lang \in {Py} \cup (IF allow_unmarked THEN {""} ELSE {})
                            /\ ~seg.empty
    BY <1>1 DEF Runnable
<1>3. Picked(blocks, allow_unmarked) \in Seq(Seq(Tokens))
    BY PickedType
<1>4. CASE seg.lang = "prose"
    <2>1. b = <<>> /\ i \notin Runnable(m)
        BY <1>1, <1>2, <1>4 DEF BlockOf, Py
    <2>2. Wanted(m)[i] = <<>>
        BY <2>1, WantedIs
    <2>3. blocks \o <<>> = blocks /\ Picked(blocks, allow_unmarked) \o <<>> = Picked(blocks, allow_unmarked)
        BY <1>3, ConcatEmptySeq
    <2> QED BY <2>1, <2>2, <2>3
<1>5. CASE seg.lang # "prose"
    <2>1. seg \in Block
        BY <1>1, <1>5 DEF Prose
    <2>2. seg.lang \in {"", "py", "js"} /\ seg.empty \in BOOLEAN
        BY <2>1 DEF Block, Py
    <2> DEFINE lang == IF seg.lang = "" THEN <<>> ELSE <<seg.lang>>
               code == IF seg.empty THEN <<>> ELSE <<Codes[i], "nl">>
               found == [lang |-> lang, code |-> code]
    <2>3. b = <<found>>
        BY <1>1, <1>5 DEF BlockOf
    <2>4. found \in FoundBlocks
        <3>1. <<found>> \in Seq(FoundBlocks)
            BY ONLY <1>1, <2>3
        <3> HIDE DEF found
        <3> QED BY ONLY <3>1, SingleOf
    <2>5. IsSupported(lang, allow_unmarked) <=>
             seg.lang \in {Py} \cup (IF allow_unmarked THEN {""} ELSE {})
        <3>1. lang = <<Py>> <=> seg.lang = Py
            <4>1. CASE seg.lang = ""
                BY <4>1 DEF Py
            <4>2. CASE seg.lang # ""
                <5>1. lang = <<seg.lang>>
                    BY <4>2
                <5>2. \A x, y : <<x>> = <<y>> <=> x = y
                    OBVIOUS
                <5> HIDE DEF lang
                <5> QED BY <5>1, <5>2
            <4> QED BY <4>1, <4>2
        <3>2. lang = <<>> <=> seg.lang = ""
            BY <2>2
        <3> HIDE DEF lang
        <3> QED BY <3>1, <3>2 DEF IsSupported
    <2>6. Strip(code) = IF seg.empty THEN <<>> ELSE <<Codes[i]>>
        <3>1. CASE seg.empty
            BY <3>1, StripEmpty
        <3>2. CASE ~seg.empty
            <4>1. Codes[i] \in Tokens /\ "nl" \in Tokens /\ Codes[i] \notin Eols /\ "nl" \in Eols
                BY <1>1, CodesAreWords DEF Tokens, Eols
            <4> QED BY <3>2, <4>1, StripWord
        <3> QED BY <2>2, <3>1, <3>2
    <2>7. Taken(allow_unmarked)[found] =
             IF IsSupported(lang, allow_unmarked) /\ Strip(code) # <<>> THEN <<Strip(code)>> ELSE <<>>
        <3>1. found.lang = lang /\ found.code = code
            OBVIOUS
        <3> HIDE DEF found
        <3> QED BY <2>4, <3>1 DEF Taken
    <2> HIDE DEF lang, code
    <2>8. Taken(allow_unmarked)[found] = IF i \in Runnable(m) THEN <<<<Codes[i]>>>> ELSE <<>>
        <3>1. <<Codes[i]>> # <<>>
            OBVIOUS
        <3>2. CASE i \in Runnable(m)
            BY <1>2, <2>5, <2>6, <2>7, <3>1, <3>2
        <3>3. CASE i \notin Runnable(m) /\ seg.empty
            BY <2>6, <2>7, <3>3
        <3>4. CASE i \notin Runnable(m) /\ ~seg.empty
            BY <1>2, <2>5, <2>7, <3>4
        <3> QED BY <3>2, <3>3, <3>4
    <2> HIDE DEF found
    <2>9. Picked(blocks \o <<found>>, allow_unmarked) =
             Picked(blocks, allow_unmarked) \o Taken(allow_unmarked)[found]
        BY <2>4, PickedAppend
    <2>10. Wanted(m)[i] = Taken(allow_unmarked)[found]
        BY <2>8, WantedIs
    <2> QED BY <2>3, <2>9, <2>10
<1> QED BY <1>4, <1>5

\* The parser finds the code of exactly the segments that are to be run.
LEMMA Extracted ==
    ASSUME NEW m \in Messages, Plain(m)
    PROVE  ExtractAll(Text(m), allow_unmarked) = Upto(Wanted(m), Len(m.segs))
<1> DEFINE n == Len(m.segs)
           b == BlocksOf(m)
           T == {k \in Nat : k <= n => Picked(Upto(b, k), allow_unmarked) = Upto(Wanted(m), k)}
<1>1. n \in Nat /\ \A i \in 1..n : b[i] \in Seq(FoundBlocks)
    BY Shape, PiecesAre
<1>2. \A i \in 1..n : Wanted(m)[i] \in Seq(Seq(Tokens))
    BY WantedIs
<1> HIDE DEF n, b
<1>3. 0 \in T
    BY UptoNone, PickedEmpty
<1>4. ASSUME NEW k \in T PROVE k + 1 \in T
    <2>1. SUFFICES ASSUME k + 1 <= n
                   PROVE  Picked(Upto(b, k + 1), allow_unmarked) = Upto(Wanted(m), k + 1)
        OBVIOUS
    <2>2. /\ k \in Nat /\ k <= n /\ k + 1 \in 1..n /\ \A i \in 1..(k + 1) : i \in 1..n
          /\ \A i \in 1..k : i \in 1..n
        BY <1>1, <2>1
    <2>3. Picked(Upto(b, k), allow_unmarked) = Upto(Wanted(m), k)
        BY <2>2
    <2>4. Upto(b, k + 1) = Upto(b, k) \o b[k + 1]
        <3>1. \A i \in 1..(k + 1) : b[i] \in Seq(FoundBlocks)
            BY <1>1, <2>2
        <3> QED BY <2>2, <3>1, UptoNext
    <2>5. Upto(Wanted(m), k + 1) = Upto(Wanted(m), k) \o Wanted(m)[k + 1]
        <3>1. \A i \in 1..(k + 1) : Wanted(m)[i] \in Seq(Seq(Tokens))
            BY <1>2, <2>2
        <3> QED BY <2>2, <3>1, UptoNext
    <2>6. Upto(b, k) \in Seq(FoundBlocks)
        <3>1. \A i \in 1..k : b[i] \in Seq(FoundBlocks)
            BY <1>1, <2>2
        <3> QED BY <2>2, <3>1, UptoType
    <2>7. \A blocks \in Seq(FoundBlocks) :
             Picked(blocks \o b[k + 1], allow_unmarked) =
                Picked(blocks, allow_unmarked) \o Wanted(m)[k + 1]
        BY <2>2, YieldIsWanted DEF n, b
    <2> QED BY <2>3, <2>4, <2>5, <2>6, <2>7
<1>5. T = Nat
    <2>1. T \in SUBSET Nat
        OBVIOUS
    <2> HIDE DEF T
    <2> QED BY <1>3, <1>4, <2>1, AllNat
<1>6. Picked(Upto(b, n), allow_unmarked) = Upto(Wanted(m), n)
    BY <1>1, <1>5
<1>7. Blocks(Normalize(Text(m))) = Upto(b, n)
    BY BlocksFound DEF b, n
<1>8. Upto(b, n) \in Seq(FoundBlocks)
    BY <1>1, UptoType
<1>9. ExtractAll(Text(m), allow_unmarked) = Picked(Upto(b, n), allow_unmarked)
    BY <1>7, <1>8, ExtractAllIs
<1> QED BY <1>6, <1>9 DEF n

--------------------------------------------------------------------------------
(* The code of a text *)

\* What the segments contribute to all blocks joined.
Joint(m) ==
    [i \in DOMAIN m.segs |->
        IF i \notin Runnable(m) THEN <<>>
        ELSE IF i = Earliest(Runnable(m)) THEN <<Codes[i]>> ELSE <<"nl", Codes[i]>>]

LEMMA EarliestIs ==
    ASSUME NEW S \in SUBSET Nat, S # {}
    PROVE  Earliest(S) \in S /\ \A j \in S : Earliest(S) <= j
BY LeastNat DEF Earliest

LEMMA JoinedEmpty == Joined(<<>>) = <<>>
<1>1. [i \in DOMAIN <<>> |-> IF i = 1 THEN <<>>[i] ELSE <<"nl">> \o <<>>[i]] = <<>>
    OBVIOUS
<1> QED BY <1>1, FlattenEmpty DEF Joined

LEMMA JoinedAppend ==
    ASSUME NEW blocks \in Seq(Seq(Tokens)), NEW code \in Seq(Tokens)
    PROVE  Joined(blocks \o <<code>>) =
              Joined(blocks) \o (IF Len(blocks) = 0 THEN code ELSE <<"nl">> \o code)
<1> DEFINE n == Len(blocks)
           longer == Append(blocks, code)
           w == [i \in 1..(n + 1) |-> IF i = 1 THEN longer[i] ELSE <<"nl">> \o longer[i]]
           v == [i \in 1..n |-> IF i = 1 THEN blocks[i] ELSE <<"nl">> \o blocks[i]]
<1>1. /\ n \in Nat /\ longer \in Seq(Seq(Tokens)) /\ Len(longer) = n + 1 /\ longer[n + 1] = code
      /\ \A i \in 1..n : longer[i] = blocks[i]
    BY LenProperties, AppendProperties
<1>2. blocks \o <<code>> = longer
    BY AppendIsConcat
<1>3. DOMAIN blocks = 1..n /\ DOMAIN longer = 1..(n + 1)
    BY <1>1, LenProperties
<1>4. Joined(longer) = FlattenSeq(w) /\ Joined(blocks) = FlattenSeq(v)
    BY <1>3 DEF Joined
<1> HIDE DEF n, longer
<1>5. \A i \in 1..(n + 1) : w[i] \in Seq(Tokens)
    <2>1. \A s \in Seq(Tokens) : <<"nl">> \o s \in Seq(Tokens)
        <3>1. "nl" \in Tokens
            BY DEF Tokens, Eols
        <3>2. <<"nl">> \in Seq(Tokens)
            BY <3>1, Single
        <3> QED BY <3>2, ConcatProperties
    <2>2. \A i \in 1..(n + 1) : longer[i] \in Seq(Tokens)
        BY <1>1, ElementOfSeq
    <2> QED BY <2>1, <2>2
<1>6. \A i \in 1..n : w[i] = v[i]
    BY <1>1
<1>7. Upto(w, n) = Upto(v, n)
    <2>1. [i \in 1..n |-> w[i]] = [i \in 1..n |-> v[i]]
        <3> HIDE DEF w, v
        <3> QED BY <1>6
    <2> HIDE DEF w, v
    <2> QED BY <2>1 DEF Upto
<1>8. w[n + 1] = IF n = 0 THEN code ELSE <<"nl">> \o code
    BY <1>1
<1>9. w = [i \in 1..(n + 1) |-> w[i]] /\ v = [i \in 1..n |-> v[i]]
    OBVIOUS
<1> HIDE DEF w, v
<1>10. FlattenSeq(w) = Upto(w, n + 1)
    <2>1. n + 1 \in Nat
        BY <1>1
    <2> QED BY <1>9, <2>1, UptoAll
<1>11. FlattenSeq(v) = Upto(v, n)
    BY <1>1, <1>9, UptoAll
<1>12. Upto(w, n + 1) = Upto(w, n) \o w[n + 1]
    BY <1>1, <1>5, UptoNext
<1> QED BY <1>2, <1>4, <1>7, <1>8, <1>10, <1>11, <1>12 DEF n

\* What the first k of the segments come to.
TakenRight(m, k) ==
    LET found == Upto(Wanted(m), k)
    IN  /\ Len(found) = 0 <=> \A i \in 1..k : i \notin Runnable(m)
        /\ Len(found) # 0 => found[1] = <<Codes[Earliest(Runnable(m))]>>
        /\ Joined(found) = Upto(Joint(m), k)

LEMMA JointType ==
    ASSUME NEW m \in Messages, NEW i \in 1..Len(m.segs)
    PROVE  /\ Joint(m)[i] = (IF i \notin Runnable(m) THEN <<>>
                             ELSE IF i = Earliest(Runnable(m)) THEN <<Codes[i]>>
                             ELSE <<"nl", Codes[i]>>)
           /\ Joint(m)[i] \in Seq(Tokens)
<1>1. i \in DOMAIN m.segs /\ Codes[i] \in Tokens /\ "nl" \in Tokens
    BY Shape, CodesAreWords DEF Tokens, Eols
<1>2. <<Codes[i]>> \in Seq(Tokens) /\ <<"nl", Codes[i]>> \in Seq(Tokens)
    BY <1>1, Single, Pair
<1> QED BY <1>1, <1>2, EmptySeq DEF Joint

LEMMA TakenRightNext ==
    ASSUME NEW m \in Messages, NEW k \in Nat, k + 1 <= Len(m.segs), TakenRight(m, k)
    PROVE  TakenRight(m, k + 1)
<1> DEFINE n == Len(m.segs)
           R == Runnable(m)
           e == Wanted(m)
           found == Upto(e, k)
           c == <<Codes[k + 1]>>
<1>1. n \in Nat /\ R \subseteq 1..n
    BY Shape DEF Runnable
<1>2. /\ k + 1 \in 1..n /\ \A i \in 1..(k + 1) : i \in 1..n
      /\ \A i \in 1..k : i \in 1..n
    BY <1>1
<1>3. /\ Len(found) = 0 <=> \A i \in 1..k : i \notin R
      /\ Len(found) # 0 => found[1] = <<Codes[Earliest(R)]>>
      /\ Joined(found) = Upto(Joint(m), k)
    BY DEF TakenRight
<1>4. \A i \in 1..(k + 1) : e[i] \in Seq(Seq(Tokens)) /\ Joint(m)[i] \in Seq(Tokens)
    BY <1>2, WantedIs, JointType
<1>5. Upto(e, k + 1) = found \o e[k + 1] /\ found \in Seq(Seq(Tokens))
    <2>1. \A i \in 1..k : e[i] \in Seq(Seq(Tokens))
        BY <1>4
    <2>2. \A i \in 1..(k + 1) : e[i] \in Seq(Seq(Tokens))
        BY <1>4
    <2> HIDE DEF e
    <2>3. Upto(e, k) \in Seq(Seq(Tokens))
        BY <2>1, UptoType
    <2>4. Upto(e, k + 1) = Upto(e, k) \o e[k + 1]
        BY <2>2, UptoNext
    <2> QED BY <2>3, <2>4
<1>6. Upto(Joint(m), k + 1) = Upto(Joint(m), k) \o Joint(m)[k + 1] /\ Upto(Joint(m), k) \in Seq(Tokens)
    <2>1. \A i \in 1..k : Joint(m)[i] \in Seq(Tokens)
        BY <1>4
    <2>2. \A i \in 1..(k + 1) : Joint(m)[i] \in Seq(Tokens)
        BY <1>4
    <2>3. Upto(Joint(m), k) \in Seq(Tokens)
        BY <2>1, UptoType
    <2>4. Upto(Joint(m), k + 1) = Upto(Joint(m), k) \o Joint(m)[k + 1]
        BY <2>2, UptoNext
    <2> QED BY <2>3, <2>4
<1>7. /\ e[k + 1] = IF k + 1 \in R THEN <<c>> ELSE <<>>
      /\ Joint(m)[k + 1] = IF k + 1 \notin R THEN <<>>
                           ELSE IF k + 1 = Earliest(R) THEN c ELSE <<"nl", Codes[k + 1]>>
      /\ c \in Seq(Tokens)
    BY <1>2, WantedIs, JointType
<1>8. R # {} => Earliest(R) \in R /\ \A j \in R : Earliest(R) <= j
    <2>1. R \in SUBSET Nat
        BY <1>1
    <2> HIDE DEF R
    <2> QED BY <2>1, EarliestIs
<1>9. Len(found) \in Nat
    BY <1>5, LenProperties
<1>10. <<"nl">> \o c = <<"nl", Codes[k + 1]>>
    <2>1. k + 1 \in DOMAIN Codes
        BY <1>2, Shape
    <2>2. "nl" \in Tokens /\ Codes[k + 1] \in Tokens
        BY <2>1, CodesAreWords DEF Tokens, Eols
    <2> QED BY <2>2, Pair
<1> DEFINE next == Upto(e, k + 1)
           glue == IF Len(found) = 0 THEN c ELSE <<"nl">> \o c
<1>11. Joined(found \o <<c>>) = Joined(found) \o glue
    BY <1>5, <1>7, JoinedAppend
<1> HIDE DEF R, e, found, c, n
<1>12. CASE k + 1 \notin R
    <2>1. next = found
        BY <1>5, <1>7, <1>12, ConcatEmptySeq
    <2>2. Upto(Joint(m), k + 1) = Upto(Joint(m), k)
        BY <1>6, <1>7, <1>12, ConcatEmptySeq
    <2>3. (\A i \in 1..(k + 1) : i \notin R) <=> \A i \in 1..k : i \notin R
        BY <1>12
    <2> HIDE DEF next
    <2> QED BY <1>3, <2>1, <2>2, <2>3 DEF TakenRight, R, e, next
<1>13. CASE k + 1 \in R
    <2>1. next = found \o <<c>> /\ <<c>> \in Seq(Seq(Tokens))
        BY <1>5, <1>7, <1>13, Single
    <2>2. Len(next) = Len(found) + 1 /\ next[Len(found) + 1] = c
          /\ \A i \in 1..Len(found) : next[i] = found[i]
        BY <1>5, <1>7, <1>9, <2>1, AppendProperties, AppendIsConcat
    <2>3. (Len(found) = 0) <=> (k + 1 = Earliest(R))
        <3>1. CASE Len(found) = 0
            <4>1. \A i \in 1..k : i \notin R
                BY <1>3, <3>1
            <4>2. Earliest(R) \in 1..n /\ Earliest(R) \in R /\ Earliest(R) <= k + 1
                <5>1. Earliest(R) \in R /\ Earliest(R) <= k + 1
                    BY ONLY <1>8, <1>13
                <5> QED BY ONLY <1>1, <5>1
            <4>3. Earliest(R) \notin 1..k
                BY ONLY <4>1, <4>2
            <4> QED BY ONLY <1>1, <3>1, <4>2, <4>3
        <3>2. CASE Len(found) # 0
            <4>1. PICK i \in 1..k : i \in R
                BY <1>3, <3>2
            <4>2. Earliest(R) <= i /\ Earliest(R) \in 1..n
                <5>1. Earliest(R) \in R /\ Earliest(R) <= i
                    BY ONLY <1>8, <4>1
                <5> QED BY ONLY <1>1, <5>1
            <4> QED BY ONLY <1>1, <3>2, <4>1, <4>2
        <3> QED BY <3>1, <3>2
    <2>4. Joint(m)[k + 1] = glue
        BY <1>7, <1>10, <1>13, <2>3
    <2>5. Joined(next) = Upto(Joint(m), k + 1)
        BY <1>3, <1>6, <1>11, <2>1, <2>4
    <2>6. next[1] = <<Codes[Earliest(R)]>>
        <3>1. CASE Len(found) = 0
            BY <2>2, <2>3, <3>1 DEF c
        <3>2. CASE Len(found) # 0
            <4>1. 1 \in 1..Len(found)
                BY <1>9, <3>2
            <4> QED BY <1>3, <2>2, <3>2, <4>1
        <3> QED BY <3>1, <3>2
    <2>7. Len(next) # 0
        BY <1>9, <2>2
    <2>8. ~\A i \in 1..(k + 1) : i \notin R
        BY <1>13
    <2> HIDE DEF next
    <2> QED BY <2>5, <2>6, <2>7, <2>8 DEF TakenRight, R, e, next
<1> QED BY <1>12, <1>13

LEMMA AllTakenRight == ASSUME NEW m \in Messages PROVE TakenRight(m, Len(m.segs))
<1> DEFINE n == Len(m.segs)
           T == {k \in Nat : k <= n => TakenRight(m, k)}
<1>1. n \in Nat
    BY Shape
<1> HIDE DEF n
<1>2. 0 \in T
    <2>1. Upto(Wanted(m), 0) = <<>> /\ Upto(Joint(m), 0) = <<>>
        BY UptoNone
    <2>2. Len(<<>>) = 0 /\ \A i \in 1..0 : i \notin Runnable(m)
        OBVIOUS
    <2>3. TakenRight(m, 0)
        BY <2>1, <2>2, JoinedEmpty DEF TakenRight
    <2> QED BY <2>3
<1>3. ASSUME NEW k \in T PROVE k + 1 \in T
    <2>1. k + 1 <= n => k <= n
        BY <1>1
    <2> QED BY <2>1, TakenRightNext DEF n
<1>4. T = Nat
    <2>1. T \in SUBSET Nat
        OBVIOUS
    <2> HIDE DEF T
    <2> QED BY <1>2, <1>3, <2>1, AllNat
<1> QED BY <1>1, <1>4 DEF n

LEMMA JoinedNotEmpty ==
    ASSUME NEW blocks \in Seq(Seq(Tokens)), Len(blocks) >= 1, Len(blocks[1]) >= 1
    PROVE  Joined(blocks) # <<>>
<1> DEFINE n == Len(blocks)
           w == [i \in 1..n |-> IF i = 1 THEN blocks[i] ELSE <<"nl">> \o blocks[i]]
<1>1. n \in Nat /\ n >= 1 /\ DOMAIN blocks = 1..n
    BY LenProperties
<1>2. Joined(blocks) = FlattenSeq(w)
    BY <1>1 DEF Joined
<1> HIDE DEF n
<1>3. \A i \in 1..n : w[i] \in Seq(Tokens)
    <2>1. \A s \in Seq(Tokens) : <<"nl">> \o s \in Seq(Tokens)
        <3>1. "nl" \in Tokens
            BY DEF Tokens, Eols
        <3>2. <<"nl">> \in Seq(Tokens)
            BY <3>1, Single
        <3> QED BY <3>2, ConcatProperties
    <2>2. \A i \in 1..n : blocks[i] \in Seq(Tokens)
        BY ElementOfSeq DEF n
    <2> QED BY <2>1, <2>2
<1>4. w[1] = blocks[1]
    BY <1>1
<1>5. w = [i \in 1..n |-> w[i]]
    OBVIOUS
<1> HIDE DEF w
<1>6. FlattenSeq(w) = Upto(w, n)
    BY <1>1, <1>5, UptoAll
<1>7. Upto(w, n) \in Seq(Tokens) /\ Len(Upto(w, n)) >= 1
    BY <1>1, <1>3, <1>4, UptoFirst
<1>8. Upto(w, n) # <<>>
    BY <1>7, EmptySeq
<1> QED BY <1>2, <1>6, <1>8

\* The code of the blocks is that of the segments that are to be run.
LEMMA TakenIs ==
    ASSUME NEW m \in Messages, Plain(m)
    PROVE  LET all == ExtractAll(Text(m), allow_unmarked)
           IN  /\ Runnable(m) = {} => all = <<>>
               /\ Runnable(m) # {} =>
                     /\ all # <<>> /\ all[1] = <<Codes[Earliest(Runnable(m))]>>
                     /\ Joined(all) = FlattenSeq(Joint(m)) /\ Joined(all) # <<>>
<1> DEFINE n == Len(m.segs)
           all == Upto(Wanted(m), n)
           R == Runnable(m)
<1>1. n \in Nat /\ DOMAIN m.segs = 1..n /\ R \subseteq 1..n
    BY Shape DEF Runnable
<1>2. ExtractAll(Text(m), allow_unmarked) = all
    BY Extracted
<1>3. all \in Seq(Seq(Tokens))
    <2>1. \A i \in 1..n : Wanted(m)[i] \in Seq(Seq(Tokens))
        BY WantedIs
    <2> HIDE DEF n
    <2> QED BY <1>1, <2>1, UptoType
<1>4. /\ Len(all) = 0 <=> \A i \in 1..n : i \notin R
      /\ Len(all) # 0 => all[1] = <<Codes[Earliest(R)]>>
      /\ Joined(all) = Upto(Joint(m), n)
    BY AllTakenRight DEF TakenRight
<1>5. FlattenSeq(Joint(m)) = Upto(Joint(m), n)
    <2>1. Joint(m) = [i \in 1..n |-> Joint(m)[i]]
        BY <1>1 DEF Joint
    <2> HIDE DEF n
    <2> QED BY <1>1, <2>1, UptoAll
<1> HIDE DEF n, all, R
<1>6. Len(all) \in Nat /\ (Len(all) = 0 => all = <<>>)
    BY <1>3, LenProperties, EmptySeq
<1>7. R = {} <=> \A i \in 1..n : i \notin R
    BY <1>1
<1>8. CASE R = {}
    <2>1. all = <<>>
        BY <1>4, <1>6, <1>7, <1>8
    <2> QED BY <1>2, <1>8, <2>1 DEF R
<1>9. CASE R # {}
    <2>1. Len(all) # 0
        BY <1>4, <1>7, <1>9
    <2>2. all # <<>> /\ Len(all) >= 1
        BY <1>3, <1>6, <2>1, EmptySeq
    <2>3. all[1] = <<Codes[Earliest(R)]>>
        BY <1>4, <2>1
    <2>4. Len(all[1]) >= 1
        BY <2>3
    <2>5. Joined(all) # <<>>
        BY <1>3, <2>2, <2>4, JoinedNotEmpty
    <2>6. Joined(all) = FlattenSeq(Joint(m))
        BY <1>4, <1>5
    <2> QED BY <1>2, <1>9, <2>2, <2>3, <2>5, <2>6 DEF R
<1> QED BY <1>8, <1>9

--------------------------------------------------------------------------------
(* The first line of a text *)

FirstLine(text) ==
    LET stripped == Strip(text)
    IN  Len(stripped) > 1 /\ stripped[1] = Py /\ stripped[2] = "nl"

BeginsFence(s) == s \in Seq(Tokens) /\ Len(s) >= 1 /\ s[1] = Fence

LEMMA BeginsConcat ==
    ASSUME NEW s, BeginsFence(s), NEW t \in Seq(Tokens)
    PROVE  BeginsFence(s \o t)
BY HeadConcat DEF BeginsFence

\* What a segment begins with.
LEMMA PieceBegins ==
    ASSUME NEW m \in Messages, NEW i \in 1..Len(m.segs)
    PROVE  Len(Pieces(m)[i]) >= 1 /\ Pieces(m)[i][1] \notin Eols \cup {Py}
<1> DEFINE seg == m.segs[i]
<1>1. /\ Pieces(m)[i] = Written(seg, i, m.eol) /\ seg \in Block \cup {Prose}
      /\ m.eol \in Eols /\ i \in DOMAIN Codes
    BY Shape, PiecesAre
<1>2. /\ Codes[i] \in Tokens /\ Codes[i] \notin Eols \cup {Py} /\ m.eol \in Tokens /\ Fence \in Tokens
      /\ Fence \notin Eols \cup {Py}
    BY <1>1, CodesAreWords, ListenerAssumption DEF Tokens, Eols, Fence, Py, IsWord
<1> HIDE DEF seg
<1>3. CASE seg.lang = "prose"
    <2>1. Written(seg, i, m.eol) = <<Codes[i], m.eol>>
        BY <1>3 DEF Written
    <2> DEFINE s == <<Codes[i], m.eol>>
    <2>2. Len(s) >= 1 /\ s[1] = Codes[i]
        OBVIOUS
    <2> HIDE DEF s
    <2> QED BY <1>1, <1>2, <2>1, <2>2 DEF s
<1>4. CASE seg.lang # "prose"
    <2>1. seg \in Block
        BY <1>1, <1>4 DEF Prose
    <2> DEFINE a == IF seg.lang = "" THEN <<>> ELSE <<seg.lang>>
               b == IF seg.empty THEN <<>> ELSE <<Codes[i], m.eol>>
               c == IF seg.closed THEN <<Fence, m.eol>> ELSE <<>>
    <2>2. a \in Seq(Tokens)
        <3>1. seg.lang # "" => seg.lang \in Tokens
            BY <2>1 DEF Block, Tokens, Leads, Py
        <3>2. \A x \in Tokens : <<x>> \in Seq(Tokens)
            BY Single
        <3> QED BY <3>1, <3>2, EmptySeq
    <2>3. b \in Seq(Tokens) /\ c \in Seq(Tokens)
        BY <1>2, Pair, EmptySeq
    <2>4. <<m.eol>> \in Seq(Tokens) /\ <<Fence>> \in Seq(Tokens)
        BY <1>2, Single
    <2>5. Written(seg, i, m.eol) = <<Fence>> \o a \o <<m.eol>> \o b \o c
        BY <1>4 DEF Written
    <2> HIDE DEF a, b, c
    <2>6. BeginsFence(<<Fence>>)
        BY <2>4 DEF BeginsFence
    <2>7. BeginsFence(<<Fence>> \o a)
        BY <2>2, <2>6, BeginsConcat
    <2>8. BeginsFence(<<Fence>> \o a \o <<m.eol>>)
        BY <2>4, <2>7, BeginsConcat
    <2>9. BeginsFence(<<Fence>> \o a \o <<m.eol>> \o b)
        BY <2>3, <2>8, BeginsConcat
    <2>10. BeginsFence(<<Fence>> \o a \o <<m.eol>> \o b \o c)
        BY <2>3, <2>9, BeginsConcat
    <2>11. BeginsFence(Pieces(m)[i])
        BY <1>1, <2>5, <2>10
    <2> QED BY <1>2, <2>11 DEF BeginsFence
<1> QED BY <1>3, <1>4

LEMMA RestBegins ==
    ASSUME NEW m \in Messages, Len(m.segs) >= 1
    PROVE  LET rest == Upto(Pieces(m), Len(m.segs))
           IN  rest \in Seq(Tokens) /\ Len(rest) >= 1 /\ rest[1] \notin Eols \cup {Py}
<1> DEFINE n == Len(m.segs)
           w == Pieces(m)
<1>1. n \in Nat /\ n >= 1
    BY Shape
<1>2. \A i \in 1..n : w[i] \in Seq(Tokens)
    BY PiecesAre
<1>3. Len(w[1]) >= 1 /\ w[1][1] \notin Eols \cup {Py}
    <2>1. 1 \in 1..n
        BY <1>1
    <2> QED BY <2>1, PieceBegins
<1> HIDE DEF n, w
<1>4. Upto(w, n) \in Seq(Tokens) /\ Len(Upto(w, n)) >= 1 /\ Upto(w, n)[1] = w[1][1]
    BY <1>1, <1>2, <1>3, UptoFirst
<1> QED BY <1>3, <1>4 DEF n, w

\* Between two words nothing is cut off.
LEMMA StripStripped ==
    ASSUME NEW S, NEW text \in Seq(S), Len(text) >= 1,
           text[1] \notin Eols, text[Len(text)] \notin Eols
    PROVE  Strip(text) = text
<1>1. Len(text) \in Nat
    BY LenProperties
<1>2. PICK l \in 1..Len(text) :
          /\ text[l] \notin Eols
          /\ \A j \in 1..Len(text) : text[j] \notin Eols => j <= l
          /\ Strip(text) = SubSeq(text, 1, l) /\ Strip(text) \in Seq(S) /\ Len(Strip(text)) = l
          /\ \A j \in 1..l : Strip(text)[j] = text[j]
    BY StripBegins
<1>3. Len(text) \in 1..Len(text)
    BY <1>1
<1>4. l = Len(text)
    BY <1>1, <1>2, <1>3
<1> QED BY <1>2, <1>4, SeqEqual

\* A first line of a word, and a rest that begins with one: stripped, the line stands as it
\* is and what follows it is the rest, stripped.
LEMMA StripBehind ==
    ASSUME NEW S, NEW head \in Seq(S), Len(head) = 2, head[1] \notin Eols,
           NEW rest \in Seq(S), Len(rest) >= 1, rest[1] \notin Eols
    PROVE  LET s == Strip(head \o rest)
           IN  /\ Len(s) > 1 /\ s[1] = head[1] /\ s[2] = head[2]
               /\ Strip(SubSeq(s, 3, Len(s))) = Strip(rest) /\ Strip(rest) # <<>>
<1> DEFINE text == head \o rest
           s == Strip(text)
           r == Strip(rest)
<1>1. Len(rest) \in Nat
    BY LenProperties
<1>2. /\ text \in Seq(S) /\ Len(text) = 2 + Len(rest)
      /\ \A i \in 1..(2 + Len(rest)) : text[i] = IF i <= 2 THEN head[i] ELSE rest[i - 2]
    BY ConcatProperties
<1> HIDE DEF text
<1>3. /\ text[1] = head[1] /\ text[2] = head[2]
      /\ \A i \in 1..Len(rest) : text[i + 2] = rest[i]
    <2>1. 1 \in 1..(2 + Len(rest)) /\ 2 \in 1..(2 + Len(rest))
        BY <1>1
    <2>2. \A i \in 1..Len(rest) : i + 2 \in 1..(2 + Len(rest)) /\ ~(i + 2 <= 2) /\ (i + 2) - 2 = i
        BY <1>1
    <2> QED BY <1>2, <2>1, <2>2
<1>4. PICK l \in 1..Len(rest) :
          /\ rest[l] \notin Eols
          /\ \A j \in 1..Len(rest) : rest[j] \notin Eols => j <= l
          /\ r = SubSeq(rest, 1, l) /\ r \in Seq(S) /\ Len(r) = l
          /\ \A j \in 1..l : r[j] = rest[j]
    BY StripBegins
<1>5. PICK k \in 1..Len(text) :
          /\ text[k] \notin Eols
          /\ \A j \in 1..Len(text) : text[j] \notin Eols => j <= k
          /\ s = SubSeq(text, 1, k) /\ s \in Seq(S) /\ Len(s) = k
          /\ \A j \in 1..k : s[j] = text[j]
    <2>1. Len(text) >= 1 /\ text[1] \notin Eols
        BY <1>1, <1>2, <1>3
    <2> QED BY <1>2, <2>1, StripBegins
<1> HIDE DEF s, r
<1>6. k = l + 2
    <2>1. l + 2 \in 1..Len(text) /\ text[l + 2] \notin Eols
        BY <1>1, <1>2, <1>3, <1>4
    <2>2. l + 2 <= k
        BY <1>5, <2>1
    <2>3. k - 2 \in 1..Len(rest) /\ (k - 2) + 2 = k
        BY <1>1, <1>2, <1>4, <1>5, <2>2
    <2>4. rest[k - 2] \notin Eols
        BY <1>3, <1>5, <2>3
    <2>5. k - 2 <= l
        BY <1>4, <2>3, <2>4
    <2> QED BY <1>1, <1>2, <2>2, <2>5
<1> DEFINE cut == SubSeq(s, 3, k)
<1>7. /\ cut \in Seq(S) /\ Len(cut) = l
      /\ \A i \in 1..l : cut[i] = s[i + 2]
    <2>1. \A i \in 3..k : s[i] \in S
        BY <1>5, ElementOfSeq
    <2>2. /\ cut \in Seq(S) /\ Len(cut) = IF 3 <= k THEN k - 3 + 1 ELSE 0
          /\ \A i \in 1..(k - 3 + 1) : cut[i] = s[3 + i - 1]
        BY <1>5, <2>1, SubSeqProperties
    <2> HIDE DEF cut
    <2>3. 3 <= k /\ k - 3 + 1 = l /\ \A i \in 1..l : 3 + i - 1 = i + 2
        BY <1>1, <1>4, <1>6
    <2> QED BY <2>2, <2>3
<1> HIDE DEF cut
<1>8. \A i \in 1..l : cut[i] = r[i]
    <2>1. \A i \in 1..l : i \in 1..Len(rest) /\ i + 2 \in 1..k
        BY <1>1, <1>4, <1>6
    <2>2. \A i \in 1..l : s[i + 2] = text[i + 2]
        BY <1>5, <2>1
    <2>3. \A i \in 1..l : text[i + 2] = rest[i] /\ r[i] = rest[i] /\ cut[i] = s[i + 2]
        BY <1>3, <1>4, <1>7, <2>1
    <2> QED BY <2>2, <2>3
<1>9. cut = r
    BY <1>4, <1>7, <1>8, SeqEqual
<1>10. Strip(r) = r
    <2>1. Len(r) >= 1 /\ r[1] = rest[1] /\ r[Len(r)] = rest[l]
        BY <1>1, <1>4
    <2> QED BY <1>4, <2>1, StripStripped
<1>11. r # <<>>
    BY <1>4, EmptySeq
<1>12. Len(s) > 1 /\ s[1] = head[1] /\ s[2] = head[2]
    BY <1>1, <1>3, <1>4, <1>5, <1>6
<1> QED BY <1>5, <1>9, <1>10, <1>11, <1>12 DEF cut, s, r, text

--------------------------------------------------------------------------------
(* The code handed on is what was meant *)

Unled(m) == m.lead = ""
Led(m)   == m.lead = Py

LEMMA UnledText ==
    ASSUME NEW m \in Messages, Unled(m)
    PROVE  Text(m) = Upto(Pieces(m), Len(m.segs))
<1>1. Lead(m) = <<>>
    BY DEF Lead, Unled
<1>2. /\ Text(m) = Lead(m) \o Upto(Pieces(m), Len(m.segs))
      /\ Upto(Pieces(m), Len(m.segs)) \in Seq(Tokens)
    BY TextIs
<1> QED BY <1>1, <1>2, ConcatEmptySeq

\* A message without a lead has no such first line.
LEMMA UnledFirstLine ==
    ASSUME NEW m \in Messages, Unled(m)
    PROVE  ~FirstLine(Text(m))
<1> DEFINE n == Len(m.segs)
           t == Upto(Pieces(m), n)
<1>1. n \in Nat /\ Text(m) = t
    BY Shape, UnledText
<1>2. CASE n = 0
    <2>1. t = <<>>
        BY <1>2, UptoNone
    <2>2. ~(Len(Strip(<<>>)) > 1)
        BY StripEmpty
    <2> HIDE DEF t
    <2> QED BY <1>1, <2>1, <2>2 DEF FirstLine
<1>3. CASE n # 0
    <2>1. t \in Seq(Tokens) /\ Len(t) >= 1 /\ t[1] \notin Eols \cup {Py}
        BY <1>1, <1>3, RestBegins
    <2> HIDE DEF t
    <2>2. PICK l \in 1..Len(t) : \A j \in 1..l : Strip(t)[j] = t[j]
        BY <2>1, StripBegins
    <2>3. Len(t) \in Nat
        BY <2>1, LenProperties
    <2>4. Strip(t)[1] = t[1]
        BY <2>2, <2>3
    <2> QED BY <1>1, <2>1, <2>4 DEF FirstLine
<1> QED BY <1>2, <1>3

\* One led by `python` has, if the line ends in a newline and something follows it.
LEMMA LedFirstLine ==
    ASSUME NEW m \in Messages, Led(m)
    PROVE  LET s == Strip(Text(m))
               rest == Upto(Pieces(m), Len(m.segs))
           IN  /\ FirstLine(Text(m)) <=> m.eol = "nl" /\ Len(m.segs) # 0
               /\ FirstLine(Text(m)) => /\ Strip(SubSeq(s, 3, Len(s))) = Strip(rest)
                                        /\ Strip(rest) # <<>>
<1> DEFINE n == Len(m.segs)
           rest == Upto(Pieces(m), n)
           head == Lead(m)
<1>1. /\ n \in Nat /\ m.eol \in Eols /\ m.eol \in Tokens /\ Py \in Tokens /\ Py \notin Eols
    BY Shape DEF Tokens, Leads, Eols, Py
<1>2. Text(m) = head \o rest /\ rest \in Seq(Tokens)
    BY TextIs
<1>3. head = <<Py, m.eol>>
    BY DEF Led, Lead, Py
<1>4. head \in Seq(Tokens) /\ Len(head) = 2 /\ head[1] = Py /\ head[2] = m.eol
    <2>1. <<Py, m.eol>> \in Seq(Tokens)
        BY <1>1, Pair
    <2> QED BY <1>3, <2>1
<1>5. CASE n = 0
    <2>1. rest = <<>>
        BY <1>5, UptoNone
    <2>2. Text(m) = head
        BY <1>2, <1>4, <2>1, ConcatEmptySeq
    <2>3. Strip(head) = <<Py>>
        BY <1>1, <1>3, StripWord
    <2>4. ~(Len(<<Py>>) > 1)
        OBVIOUS
    <2>5. ~FirstLine(Text(m))
        BY <2>2, <2>3, <2>4 DEF FirstLine
    <2> QED BY <1>5, <2>5
<1>6. CASE n # 0
    <2>1. rest \in Seq(Tokens) /\ Len(rest) >= 1 /\ rest[1] \notin Eols
        BY <1>1, <1>6, RestBegins
    <2> HIDE DEF rest, head
    <2> DEFINE s == Strip(head \o rest)
    <2>2. /\ Len(s) > 1 /\ s[1] = head[1] /\ s[2] = head[2]
          /\ Strip(SubSeq(s, 3, Len(s))) = Strip(rest) /\ Strip(rest) # <<>>
        BY <1>1, <1>4, <2>1, StripBehind
    <2> HIDE DEF s
    <2>3. s = Strip(Text(m))
        BY <1>2 DEF s
    <2>4. FirstLine(Text(m)) <=> m.eol = "nl"
        BY <1>4, <2>2, <2>3 DEF FirstLine
    <2> QED BY <1>6, <2>2, <2>3, <2>4 DEF rest
<1> QED BY <1>5, <1>6

LEMMA CodeOfCases ==
    ASSUME NEW text
    PROVE  LET s == Strip(text)
               all == ExtractAll(text, allow_unmarked)
           IN  /\ FirstLine(text) => CodeOf(text) = Strip(SubSeq(s, 3, Len(s)))
               /\ ~FirstLine(text) =>
                     CodeOf(text) = IF execute_all THEN Joined(all)
                                    ELSE IF all = <<>> THEN <<>> ELSE all[1]
BY Zenon DEF CodeOf, FirstLine, Extract

\* What was meant, if neither a command nor a file was.
LEMMA MeantCases ==
    ASSUME NEW m \in Messages, ~m.bot, Plain(m), Readable(m) = {}
    PROVE  LET first == Led(m) /\ m.eol = "nl" /\ Len(m.segs) # 0
           IN  /\ first => Meant(m) = {Strip(Upto(Pieces(m), Len(m.segs)))}
               /\ ~first /\ Runnable(m) = {} => Meant(m) = {}
               /\ ~first /\ Runnable(m) # {} /\ ~execute_all =>
                     Meant(m) = {<<Codes[Earliest(Runnable(m))]>>}
               /\ ~first /\ Runnable(m) # {} /\ execute_all => Meant(m) = {FlattenSeq(Joint(m))}
<1>1. m.lead \notin {"!pip", "!other"} /\ m.lead # "/code"
    BY DEF Plain, Py
<1>2. m.segs = <<>> <=> Len(m.segs) = 0
    <2>1. PICK n \in Nat : m.segs \in [1..n -> Block \cup {Prose}]
        BY ListenerAssumption DEF Messages, Segments
    <2>2. m.segs \in Seq(Block \cup {Prose})
        BY <2>1, SeqDef
    <2> QED BY <2>2, EmptySeq
<1> DEFINE x == [m EXCEPT !.lead = ""]
<1>3. x.lead = "" /\ x.segs = m.segs /\ x.eol = m.eol
    BY DEF Messages
<1> HIDE DEF x
<1>4. Text(x) = <<>> \o FlattenSeq(Pieces(m))
    <2>1. Text(x) = Lead(x) \o FlattenSeq(Pieces(x))
        BY DEF Text, Lead, Pieces
    <2>2. Lead(x) = <<>> /\ Pieces(x) = Pieces(m)
        BY <1>3 DEF Lead, Pieces
    <2> QED BY <2>1, <2>2
<1>5. FlattenSeq(Pieces(m)) = Upto(Pieces(m), Len(m.segs)) /\ Upto(Pieces(m), Len(m.segs)) \in Seq(Tokens)
    <2>1. Len(m.segs) \in Nat /\ Pieces(m) = [i \in 1..Len(m.segs) |-> Pieces(m)[i]]
        BY Shape DEF Pieces
    <2> QED BY <2>1, TextIs, UptoAll
<1>6. Text(x) = Upto(Pieces(m), Len(m.segs))
    BY <1>4, <1>5, ConcatEmptySeq
<1> DEFINE first == m.lead = Py /\ m.eol = "nl" /\ m.segs # <<>>
<1>7. first <=> Led(m) /\ m.eol = "nl" /\ Len(m.segs) # 0
    BY <1>2 DEF Led
<1>8. Meant(m) = IF first THEN {Strip(Text(x))}
                 ELSE IF Runnable(m) = {} THEN {}
                 ELSE IF ~execute_all THEN {<<Codes[Earliest(Runnable(m))]>>}
                 ELSE {FlattenSeq(Joint(m))}
    BY <1>1, Zenon DEF Meant, Joint, x
<1> HIDE DEF first
<1> QED BY <1>6, <1>7, <1>8, Zenon

\* The listener picks what was meant.
LEMMA CodeRight ==
    ASSUME NEW m \in Messages, ~m.bot, Plain(m), Readable(m) = {}, execute_all \in BOOLEAN
    PROVE  {CodeOf(Text(m))} \ {<<>>} = Meant(m)
<1> DEFINE text == Text(m)
           all == ExtractAll(text, allow_unmarked)
           s == Strip(text)
           rest == Upto(Pieces(m), Len(m.segs))
           R == Runnable(m)
           first == Led(m) /\ m.eol = "nl" /\ Len(m.segs) # 0
<1>1. /\ FirstLine(text) <=> first
      /\ first => Strip(SubSeq(s, 3, Len(s))) = Strip(rest) /\ Strip(rest) # <<>>
    <2>1. CASE Led(m)
        BY <2>1, LedFirstLine
    <2>2. CASE Unled(m)
        <3>1. ~FirstLine(text)
            BY <2>2, UnledFirstLine
        <3>2. ~Led(m)
            BY <2>2 DEF Led, Unled, Py
        <3> QED BY <3>1, <3>2
    <2> QED BY <2>1, <2>2 DEF Plain, Led, Unled
<1>2. /\ FirstLine(text) => CodeOf(text) = Strip(SubSeq(s, 3, Len(s)))
      /\ ~FirstLine(text) =>
            CodeOf(text) = IF execute_all THEN Joined(all)
                           ELSE IF all = <<>> THEN <<>> ELSE all[1]
    BY CodeOfCases
<1>3. /\ first => Meant(m) = {Strip(rest)}
      /\ ~first /\ R = {} => Meant(m) = {}
      /\ ~first /\ R # {} /\ ~execute_all => Meant(m) = {<<Codes[Earliest(R)]>>}
      /\ ~first /\ R # {} /\ execute_all => Meant(m) = {FlattenSeq(Joint(m))}
    BY MeantCases
<1>4. /\ R = {} => all = <<>>
      /\ R # {} => /\ all # <<>> /\ all[1] = <<Codes[Earliest(R)]>>
                   /\ Joined(all) = FlattenSeq(Joint(m)) /\ Joined(all) # <<>>
    BY TakenIs
<1>5. <<Codes[Earliest(R)]>> # <<>>
    OBVIOUS
<1> HIDE DEF text, all, s, rest, R, first
<1>6. CASE first
    <2>1. CodeOf(text) = Strip(rest) /\ Strip(rest) # <<>>
        BY <1>1, <1>2, <1>6
    <2> QED BY <1>3, <1>6, <2>1 DEF text
<1>7. CASE ~first /\ R = {}
    <2>1. CodeOf(text) = <<>>
        BY <1>1, <1>2, <1>4, <1>7, JoinedEmpty
    <2> QED BY <1>3, <1>7, <2>1 DEF text
<1>8. CASE ~first /\ R # {} /\ ~execute_all
    <2>1. CodeOf(text) = <<Codes[Earliest(R)]>>
        BY <1>1, <1>2, <1>4, <1>8
    <2> QED BY <1>3, <1>5, <1>8, <2>1 DEF text
<1>9. CASE ~first /\ R # {} /\ execute_all
    <2>1. CodeOf(text) = FlattenSeq(Joint(m)) /\ CodeOf(text) # <<>>
        BY <1>1, <1>2, <1>4, <1>9
    <2> QED BY <1>3, <1>9, <2>1 DEF text
<1> QED BY <1>6, <1>7, <1>8, <1>9

LEMMA FirstIsEarliest ==
    ASSUME NEW S \in SUBSET Nat, NEW k \in S, \A i \in S : i >= k
    PROVE  Earliest(S) = k
<1> DEFINE e == Earliest(S)
<1>1. e \in S /\ \A j \in S : e <= j
    BY EarliestIs
<1> HIDE DEF e
<1>2. e <= k /\ e >= k /\ e \in Nat /\ k \in Nat
    BY <1>1
<1>3. e = k
    BY <1>2
<1> QED BY <1>3 DEF e

\* At most one code is meant.
LEMMA MeantType ==
    ASSUME NEW m \in Messages
    PROVE  Meant(m) = {} \/ \E code \in Seq(Tokens) : Meant(m) = {code}
<1>1. CASE m.bot \/ m.lead \in {"!pip", "!other"}
    BY <1>1 DEF Meant
<1>2. CASE ~m.bot /\ m.lead = "/code"
    <2>1. Meant(m) = {Text(m)}
        BY <1>2 DEF Meant
    <2> QED BY <2>1, TextIs
<1>3. CASE ~m.bot /\ Plain(m) /\ Readable(m) # {}
    <2> DEFINE i == Earliest(Readable(m))
               code == IF m.files[i] = "file" THEN <<Files[i]>> ELSE <<>>
    <2>1. i \in DOMAIN Files
        <3>1. Readable(m) \in SUBSET Nat
            BY Shape DEF Readable
        <3>2. i \in Readable(m)
            BY <1>3, <3>1, EarliestIs
        <3> QED BY <3>2, Shape DEF Readable
    <2>2. code \in Seq(Tokens)
        <3>1. Files[i] \in Tokens
            BY <2>1 DEF Tokens
        <3>2. \A x \in Tokens : <<x>> \in Seq(Tokens)
            BY Single
        <3> HIDE DEF i
        <3> QED BY <3>1, <3>2, EmptySeq
    <2>3. Meant(m) = {code}
        BY <1>3 DEF Meant, Plain, Py
    <2> HIDE DEF code
    <2> QED BY <2>2, <2>3
<1>4. CASE ~m.bot /\ Plain(m) /\ Readable(m) = {}
    <2> DEFINE first == Led(m) /\ m.eol = "nl" /\ Len(m.segs) # 0
               R == Runnable(m)
               rest == Upto(Pieces(m), Len(m.segs))
    <2>1. /\ first => Meant(m) = {Strip(rest)}
          /\ ~first /\ R = {} => Meant(m) = {}
          /\ ~first /\ R # {} /\ ~execute_all => Meant(m) = {<<Codes[Earliest(R)]>>}
          /\ ~first /\ R # {} /\ execute_all => Meant(m) = {FlattenSeq(Joint(m))}
        BY <1>4, MeantCases
    <2>2. Strip(rest) \in Seq(Tokens)
        BY TextIs, StripType
    <2>3. R # {} => <<Codes[Earliest(R)]>> \in Seq(Tokens)
        <3>1. R \subseteq 1..Len(m.segs) /\ R \in SUBSET Nat
            <4>1. R \subseteq 1..Len(m.segs) /\ Len(m.segs) \in Nat
                BY Shape DEF Runnable
            <4> HIDE DEF R
            <4> QED BY ONLY <4>1
        <3> HIDE DEF R
        <3>2. R # {} => Earliest(R) \in 1..Len(m.segs)
            BY <3>1, EarliestIs
        <3> QED BY <3>2, WantedIs
    <2>4. FlattenSeq(Joint(m)) \in Seq(Tokens)
        <3>1. Len(m.segs) \in Nat /\ Joint(m) = [i \in 1..Len(m.segs) |-> Joint(m)[i]]
            BY Shape DEF Joint
        <3>2. \A i \in 1..Len(m.segs) : Joint(m)[i] \in Seq(Tokens)
            BY JointType
        <3> QED BY <3>1, <3>2, UptoAll, UptoType
    <2> HIDE DEF first, R, rest
    <2> QED BY <2>1, <2>2, <2>3, <2>4
<1> QED BY <1>1, <1>2, <1>3, <1>4, Shape DEF Leads, Plain

LEMMA MeantKept == ASSUME UNCHANGED input PROVE Meant(message)' = Meant(message)
BY DEF input, Meant, Readable, Runnable, Earliest

--------------------------------------------------------------------------------
(* The listener's invariant *)

Ignored(m) == m.bot \/ m.lead \in {"!pip", "!other"}

PlaceOf ==
    /\ message \in Messages /\ content = Text(message)
    /\ allow_unmarked \in BOOLEAN /\ execute_all \in BOOLEAN
    /\ at \in {"received", "deferring", "choosing", "commanding", "ended", "crashed"}
    /\ attachment \in 1..(Len(message.files) + 1)

\* What is known of the message where it is, and of what was handed on.
HandledInv ==
    /\ at \notin {"ended"} => handled = {}
    /\ at = "received" => attachment = 1
    /\ at = "deferring" => ~message.bot /\ message.lead = "/code"
    /\ at = "commanding" => Ignored(message)
    /\ at = "choosing" => /\ ~message.bot /\ Plain(message)
                          /\ \A i \in Readable(message) : i >= attachment
    /\ at = "ended" => handled = Meant(message)

ListenerInv == PlaceOf /\ HandledInv /\ CommandInv

LEMMA IgnoredMeant == ASSUME NEW m, Ignored(m) PROVE Meant(m) = {}
BY DEF Meant, Ignored

LEMMA ListenerInvInit == Init => ListenerInv
<1> SUFFICES ASSUME Init PROVE ListenerInv
    OBVIOUS
<1>1. CommandInv
    BY CommandInvInit DEF Init
<1>2. message \in Messages /\ content = Text(message) /\ at = "received" /\ attachment = 1 /\ handled = {}
      /\ allow_unmarked \in BOOLEAN /\ execute_all \in BOOLEAN
    BY DEF Init
<1>3. Len(message.files) \in Nat
    BY <1>2, Shape
<1>4. 1 \in 1..(Len(message.files) + 1)
    BY <1>3
<1>5. PlaceOf
    BY <1>2, <1>4 DEF PlaceOf
<1>6. HandledInv
    BY <1>2 DEF HandledInv
<1> QED BY <1>1, <1>5, <1>6 DEF ListenerInv

\* What is read and what was meant stay the same.
LEMMA InputKept ==
    ASSUME PlaceOf, UNCHANGED input,
           at' \in {"received", "deferring", "choosing", "commanding", "ended", "crashed"},
           attachment' \in 1..(Len(message.files) + 1)
    PROVE  PlaceOf' /\ Meant(message)' = Meant(message)
<1>1. /\ message' = message /\ content' = content
      /\ allow_unmarked' = allow_unmarked /\ execute_all' = execute_all
    BY DEF input
<1>2. PlaceOf'
    BY <1>1 DEF PlaceOf
<1> QED BY <1>2, MeantKept

LEMMA ReceiveInv == ASSUME PlaceOf, HandledInv, Receive PROVE PlaceOf' /\ HandledInv'
<1>1. /\ at = "received" /\ attachment = 1 /\ handled = {} /\ UNCHANGED <<input, attachment, handled>>
      /\ at' \in {"ended", "commanding", "deferring", "choosing"}
      /\ at' \in {"ended", "commanding"} => Ignored(message)
      /\ at' = "deferring" => ~message.bot /\ message.lead = "/code"
      /\ at' = "choosing" => ~message.bot /\ message.lead \notin {"!pip", "!other", "/code"}
    BY DEF Receive, HandledInv, Ignored
<1>2. message \in Messages /\ attachment \in 1..(Len(message.files) + 1) /\ message' = message
    BY <1>1 DEF PlaceOf, input
<1>3. PlaceOf' /\ Meant(message)' = Meant(message)
    BY <1>1, <1>2, InputKept
<1>4. at' = "choosing" => Plain(message)
    BY <1>1, <1>2, Shape DEF Plain, Leads
<1>5. \A i \in Readable(message) : i >= 1
    BY <1>2, Shape DEF Readable
<1>6. at' = "ended" => Meant(message) = {}
    BY <1>1, IgnoredMeant
<1>7. attachment' = attachment /\ handled' = handled
    BY <1>1
<1>8. HandledInv'
    <2>1. (at \notin {"ended"} => handled = {})'
        BY <1>1, <1>7
    <2>2. (at = "received" => attachment = 1)'
        BY <1>1, <1>7
    <2>3. (at = "deferring" => ~message.bot /\ message.lead = "/code")'
        BY <1>1, <1>2
    <2>4. (at = "commanding" => Ignored(message))'
        BY <1>1, <1>2 DEF Ignored
    <2>5. (at = "choosing" => ~message.bot /\ Plain(message) /\ \A i \in Readable(message) : i >= attachment)'
        BY <1>1, <1>2, <1>4, <1>5, <1>7 DEF Plain, Readable
    <2>6. (at = "ended" => handled = Meant(message))'
        BY <1>1, <1>3, <1>6, <1>7
    <2> QED BY <2>1, <2>2, <2>3, <2>4, <2>5, <2>6 DEF HandledInv
<1> QED BY <1>3, <1>8

\* A step that ends the message, with what was meant handed on.
LEMMA EndedInv ==
    ASSUME PlaceOf, UNCHANGED input, attachment' \in 1..(Len(message.files) + 1),
           \/ at' = "ended" /\ handled' = Meant(message)
           \/ at' = "crashed" /\ handled' = {}
    PROVE  PlaceOf' /\ HandledInv'
<1>1. PlaceOf' /\ Meant(message)' = Meant(message)
    BY InputKept
<1>2. HandledInv'
    BY <1>1 DEF HandledInv
<1> QED BY <1>1, <1>2

LEMMA DeferredInv == ASSUME PlaceOf, HandledInv, Deferred PROVE PlaceOf' /\ HandledInv'
<1>1. /\ at = "deferring" /\ handled = {} /\ UNCHANGED <<input, attachment>>
      /\ ~message.bot /\ message.lead = "/code"
      /\ message \in Messages /\ content = Text(message) /\ attachment \in 1..(Len(message.files) + 1)
    BY DEF Deferred, HandledInv, PlaceOf
<1>2. Meant(message) = {content}
    BY <1>1 DEF Meant
<1>3. \/ at' = "ended" /\ handled' = Meant(message)
      \/ at' = "crashed" /\ handled' = {}
    BY <1>1, <1>2 DEF Deferred, Handle
<1>4. attachment' \in 1..(Len(message.files) + 1)
    BY <1>1
<1> QED BY <1>1, <1>3, <1>4, EndedInv

LEMMA ReadInv == ASSUME PlaceOf, HandledInv, Read PROVE PlaceOf' /\ HandledInv'
<1> DEFINE k == attachment
           n == Len(message.files)
           R == Readable(message)
<1>1. /\ at = "choosing" /\ handled = {} /\ UNCHANGED input /\ k \in DOMAIN message.files
      /\ ~message.bot /\ Plain(message) /\ message \in Messages /\ attachment' = k + 1
      /\ \A i \in R : i >= k
    BY DEF Read, HandledInv, PlaceOf
<1>2. n \in Nat /\ DOMAIN message.files = 1..n /\ R \in SUBSET Nat /\ k \in 1..n
    BY <1>1, Shape DEF Readable
<1>3. attachment' \in 1..(n + 1)
    <2> HIDE DEF n
    <2> QED BY ONLY <1>1, <1>2
<1>4. k \in R <=> message.files[k] \in {"file", "empty_file"}
    BY <1>1 DEF Readable
<1>5. CASE k \in R
    <2>1. Earliest(R) = k
        <3> HIDE DEF R, k
        <3> QED BY ONLY <1>1, <1>2, <1>5, FirstIsEarliest
    <2>2. Meant(message) = {IF message.files[k] = "file" THEN <<Files[k]>> ELSE <<>>}
        BY <1>1, <1>5, <2>1 DEF Meant, Plain, Py
    <2>3. at' = "ended" /\ handled' = Meant(message)
        BY <1>4, <1>5, <2>2 DEF Read, Handle
    <2> QED BY <1>1, <1>3, <2>3, EndedInv
<1>6. CASE k \notin R
    <2>1. at' = "choosing" /\ handled' = {}
        BY <1>1, <1>4, <1>6 DEF Read, Handle
    <2>2. PlaceOf' /\ message' = message
        BY <1>1, <1>3, <2>1, InputKept DEF input
    <2>3. \A i \in R : i >= k + 1
        <3> HIDE DEF R, k, n
        <3> QED BY ONLY <1>1, <1>2, <1>6
    <2>4. (\A i \in Readable(message) : i >= attachment)'
        BY <1>1, <2>2, <2>3 DEF Readable
    <2>5. (~message.bot /\ Plain(message))'
        BY <1>1, <2>2 DEF Plain
    <2>6. HandledInv'
        BY <2>1, <2>4, <2>5 DEF HandledInv
    <2> QED BY <2>2, <2>6
<1> QED BY <1>5, <1>6

LEMMA ChooseInv == ASSUME PlaceOf, HandledInv, Choose PROVE PlaceOf' /\ HandledInv'
<1> DEFINE n == Len(message.files)
           R == Readable(message)
<1>1. /\ UNCHANGED <<input, attachment>> /\ attachment \notin DOMAIN message.files
      /\ ~message.bot /\ Plain(message) /\ message \in Messages /\ content = Text(message)
      /\ \A i \in R : i >= attachment
      /\ attachment \in 1..(n + 1) /\ execute_all \in BOOLEAN
    BY DEF Choose, HandledInv, PlaceOf
<1>2. at' = "ended" /\ handled' = {CodeOf(content)} \ {<<>>}
    BY DEF Choose
<1>3. n \in Nat /\ DOMAIN message.files = 1..n /\ R \subseteq 1..n
    BY <1>1, Shape DEF Readable
<1>4. R = {}
    <2> HIDE DEF n, R
    <2> QED BY ONLY <1>1, <1>3
<1>5. handled' = Meant(message)
    BY <1>1, <1>2, <1>4, CodeRight
<1>6. attachment' \in 1..(Len(message.files) + 1)
    BY <1>1
<1> QED BY <1>1, <1>2, <1>5, <1>6, EndedInv

LEMMA CommandReturnsInv == ASSUME PlaceOf, HandledInv, CommandReturns PROVE PlaceOf' /\ HandledInv'
<1>1. /\ at = "commanding" /\ at' = "ended" /\ UNCHANGED <<input, attachment, handled>>
      /\ handled = {} /\ Ignored(message) /\ attachment \in 1..(Len(message.files) + 1)
    BY DEF CommandReturns, HandledInv, PlaceOf
<1>2. handled' = Meant(message) /\ attachment' \in 1..(Len(message.files) + 1)
    BY <1>1, IgnoredMeant
<1> QED BY <1>1, <1>2, EndedInv

LEMMA NothingInv ==
    ASSUME PlaceOf, HandledInv, UNCHANGED <<input, at, attachment, handled>>
    PROVE  PlaceOf' /\ HandledInv'
<1>1. /\ at' = at /\ attachment' = attachment /\ handled' = handled /\ message' = message
      /\ UNCHANGED input
    BY DEF input
<1>2. at' \in {"received", "deferring", "choosing", "commanding", "ended", "crashed"}
    BY <1>1 DEF PlaceOf
<1>3. attachment' \in 1..(Len(message.files) + 1)
    BY <1>1 DEF PlaceOf
<1>4. PlaceOf' /\ Meant(message)' = Meant(message)
    BY <1>1, <1>2, <1>3, InputKept
<1>5. HandledInv'
    BY <1>1, <1>4 DEF HandledInv, Ignored, Plain, Readable
<1> QED BY <1>4, <1>5

LEMMA ListenerInvNext == ASSUME ListenerInv, [Next]_vars PROVE ListenerInv'
<1>1. PlaceOf /\ HandledInv /\ CommandInv
    BY DEF ListenerInv
<1>2. CommandInv'
    BY <1>1, CommandInvKept
<1>3. CASE Receive
    BY <1>1, <1>2, <1>3, ReceiveInv DEF ListenerInv
<1>4. CASE Deferred
    BY <1>1, <1>2, <1>4, DeferredInv DEF ListenerInv
<1>5. CASE Read
    BY <1>1, <1>2, <1>5, ReadInv DEF ListenerInv
<1>6. CASE Choose
    BY <1>1, <1>2, <1>6, ChooseInv DEF ListenerInv
<1>7. CASE CommandReturns
    BY <1>1, <1>2, <1>7, CommandReturnsInv DEF ListenerInv
<1>8. CASE Command \/ Pip \/ UNCHANGED vars
    <2>1. UNCHANGED <<input, at, attachment, handled>>
        BY <1>8 DEF Command, Pip, vars
    <2> QED BY <1>1, <1>2, <2>1, NothingInv DEF ListenerInv
<1> QED BY <1>3, <1>4, <1>5, <1>6, <1>7, <1>8 DEF Next

LEMMA ListenerInvAlways == Spec => []ListenerInv
BY ListenerInvInit, ListenerInvNext, PTL DEF Spec

\* The listener hands on what its rules single out and nothing else: nothing of a command,
\* with blocks or without; the earliest file that can be read; all that follows a first line
\* `python`; else the code of the supported blocks - in messages of any number of segments
\* between which the words hold no fence.
THEOREM CodeIsRight == Spec => []RightCode
<1>1. ListenerInv => RightCode
    BY DEF ListenerInv, HandledInv, RightCode
<1> QED BY <1>1, ListenerInvAlways, PTL

\* The listener's state and the command's keep their types; what is handed on is one text.
THEOREM ListenerTypeCorrect == Spec => []TypeOK
<1>1. ASSUME ListenerInv PROVE TypeOK
    <2>1. handled = {} \/ \E code \in Seq(Tokens) : handled = {code}
        <3>1. handled = {} \/ handled = Meant(message)
            BY <1>1 DEF ListenerInv, HandledInv
        <3>2. message \in Messages
            BY <1>1 DEF ListenerInv, PlaceOf
        <3> QED BY <3>1, <3>2, MeantType
    <2>2. Cardinality(handled) <= 1
        <3>1. CASE handled = {}
            BY <3>1, FS_EmptySet
        <3>2. CASE \E code \in Seq(Tokens) : handled = {code}
            <4>1. PICK code : handled = {code}
                BY <3>2
            <4>2. Cardinality({code}) = 1
                BY FS_Singleton
            <4> QED BY <4>1, <4>2
        <3> QED BY <2>1, <3>1, <3>2
    <2>3. handled \subseteq Seq(Tokens)
        BY <2>1
    <2> QED BY <1>1, <2>2, <2>3 DEF ListenerInv, PlaceOf, CommandInv, TypeOK
<1> QED BY <1>1, ListenerInvAlways, PTL
================================================================================
