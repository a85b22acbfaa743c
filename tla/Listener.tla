-------------------------------- MODULE Listener --------------------------------
(***************************************************************************)
(* app/bot/discord_bot: what is done with a message.  It is ignored, run   *)
(* as a command, or handed to the pipeline with the code of an attachment  *)
(* or of its text; /code hands over what it is given.                      *)
(*                                                                         *)
(* A message is given by how it was written - a lead and a sequence of     *)
(* prose and code blocks - and the listener sees the text that results, so *)
(* that what it picks can be compared with what was meant.                 *)
(***************************************************************************)
EXTENDS CodeParser, PipCommand

CONSTANTS
    MaxParts,   \* bound on the segments and attachments of a message
    Codes,      \* the words of its segments
    Files       \* and the contents of its files

ASSUME ListenerAssumption ==
    /\ MaxParts \in Nat
    /\ Codes \in Seq(STRING) /\ Files \in Seq(STRING)
    /\ Len(Codes) >= MaxParts /\ Len(Files) >= MaxParts
    /\ \A i \in DOMAIN Codes : IsWord(Codes[i]) /\ Codes[i] # Py

VARIABLES
    message,        \* what arrived, as it was written
    content,        \* message.content
    allow_unmarked, \* not REQUIRE_PYTHON_CODE_BLOCK
    execute_all,    \* EXECUTE_ALL_BLOCKS
    at,             \* the await that on_message is suspended in, or how it ended
    attachment,     \* the attachment that is looked at next
    handled         \* the code handed to handle(): at most one

input == <<message, content, allow_unmarked, execute_all>>
vars == <<input, at, attachment, handled, cmdVars>>

--------------------------------------------------------------------------------
(* Messages, as they are written *)

\* A block is written with a language (none, Python, another), code or none, and a
\* closing fence; only the last one may lack that.  The words between blocks hold no fence:
\* what a stray fence does to the blocks behind it is not written here.
Block == [lang : {"", Py, "js"}, empty : BOOLEAN, closed : BOOLEAN]
Prose == [lang |-> "prose", empty |-> FALSE, closed |-> TRUE]

Segments ==
    UNION {{segs \in [1..n -> Block \cup {Prose}] : \A i \in 1..(n - 1) : segs[i].closed} :
              n \in 0..MaxParts}

\* An attachment is no Python file, or one that can be read, is empty, or cannot be read.
Attachments == UNION {[1..n -> {"other", "file", "empty_file", "unreadable"}] :
                         n \in 0..MaxParts}

Leads == {"", "!pip", "!other", "/code", Py}

Tokens == Leads \cup Eols \cup {Fence, "js"} \cup {Codes[i] : i \in DOMAIN Codes}
                \cup {Files[i] : i \in DOMAIN Files}

Messages ==
    {m \in [bot : BOOLEAN, lead : Leads, eol : Eols, segs : Segments, files : Attachments] :
        /\ Len(m.segs) + Len(m.files) <= MaxParts
        /\ m.lead = "/code" => ~m.bot /\ m.files = <<>>}

Written(seg, i, eol) ==
    CASE seg.lang = "prose" -> <<Codes[i], eol>>
      [] OTHER -> <<Fence>> \o (IF seg.lang = "" THEN <<>> ELSE <<seg.lang>>) \o <<eol>>
                  \o (IF seg.empty THEN <<>> ELSE <<Codes[i], eol>>)
                  \o (IF seg.closed THEN <<Fence, eol>> ELSE <<>>)

Text(m) ==
    (IF m.lead \in {"", "/code"} THEN <<>> ELSE <<m.lead, m.eol>>)
        \o FlattenSeq([i \in DOMAIN m.segs |-> Written(m.segs[i], i, m.eol)])

--------------------------------------------------------------------------------
(* on_message *)

Init ==
    /\ message \in Messages
    /\ content = Text(message)
    /\ allow_unmarked \in BOOLEAN
    /\ execute_all \in BOOLEAN
    /\ at = "received"
    /\ attachment = 1
    /\ handled = {}
    /\ CommandInit

\* "\n".join(blocks)
Joined(blocks) ==
    FlattenSeq([i \in DOMAIN blocks |-> IF i = 1 THEN blocks[i] ELSE <<"nl">> \o blocks[i]])

\* The code of the text: all that follows a first line `python`, or the first supported
\* block, or all of them joined.
CodeOf(text) ==
    LET stripped == Strip(text)
    IN  IF Len(stripped) > 1 /\ stripped[1] = Py /\ stripped[2] = "nl"
        THEN Strip(SubSeq(stripped, 3, Len(stripped)))
        ELSE IF execute_all THEN Joined(ExtractAll(text, allow_unmarked))
        ELSE Extract(text, allow_unmarked)

\* Bots are ignored, commands passed on; then the attachments are gone through.
Receive ==
    /\ at = "received"
    /\ IF message.bot THEN at' = "ended" /\ UNCHANGED cmdVars
       ELSE IF message.lead \in {"!pip", "!other"}
       THEN CommandBegins(message.lead = "!pip") /\ at' = "commanding"
       ELSE IF message.lead = "/code" THEN at' = "deferring" /\ UNCHANGED cmdVars
       ELSE at' = "choosing" /\ UNCHANGED cmdVars
    /\ UNCHANGED <<input, attachment, handled>>

Handle(code) == handled' = {code} /\ at' = "ended"

\* code_command: a defer() that fails, in whatever way, leaves the command at once.
Deferred ==
    /\ at = "deferring"
    /\ \/ Handle(content)
       \/ at' = "crashed" /\ UNCHANGED handled
    /\ UNCHANGED <<input, attachment, cmdVars>>

\* Mutant of Read: the loop goes on behind the file that was taken.
ReadAll ==
    /\ at = "choosing" /\ attachment \in DOMAIN message.files
    /\ handled' = IF message.files[attachment] \in {"file", "empty_file"}
                  THEN handled \cup {<<Files[attachment]>>} ELSE handled
    /\ attachment' = attachment + 1
    /\ UNCHANGED <<input, at, cmdVars>>

\* The first Python file that can be read and decoded is the code, even if it is empty;
\* one that cannot is passed over.
Read ==
    /\ at = "choosing" /\ attachment \in DOMAIN message.files
    /\ CASE message.files[attachment] = "file" -> Handle(<<Files[attachment]>>)
         [] message.files[attachment] = "empty_file" -> Handle(<<>>)
         [] OTHER -> UNCHANGED <<at, handled>>
    /\ attachment' = attachment + 1
    /\ UNCHANGED <<input, cmdVars>>

\* No file: the text, unless it holds no code.
Choose ==
    /\ at = "choosing" /\ attachment \notin DOMAIN message.files
    /\ handled' = {CodeOf(content)} \ {<<>>}
    /\ at' = "ended"
    /\ UNCHANGED <<input, attachment, cmdVars>>

Command == CommandStep /\ UNCHANGED <<input, at, attachment, handled>>
Pip     == PipExits /\ UNCHANGED <<input, at, attachment, handled>>

\* handle_command returns or raises, and on_message with it.
CommandReturns ==
    /\ at = "commanding" /\ cmd \in CommandOver
    /\ at' = "ended"
    /\ UNCHANGED <<input, attachment, handled, cmdVars>>

Next == Receive \/ Deferred \/ Read \/ Choose \/ Command \/ CommandReturns \/ Pip

\* For a command the loop runs what is ready, and Discord's calls and the timer end.
\* pip need not.
Spec == Init /\ [][Next]_vars /\ WF_vars(Command \/ CommandReturns)

--------------------------------------------------------------------------------
\* Type invariant of the listener and of a command.
TypeOK ==
    /\ allow_unmarked \in BOOLEAN /\ execute_all \in BOOLEAN
    /\ at \in {"received", "deferring", "choosing", "commanding", "ended", "crashed"}
    /\ attachment \in 1..(Len(message.files) + 1)
    /\ Cardinality(handled) <= 1 /\ handled \subseteq Seq(Tokens)
    /\ CommandTypeOK

\* What the listener is to run, by how the message was written.  Three of its rules go
\* beyond its docs: whatever follows a first line `python` is code, the words between blocks
\* too, unless the line ends in CR LF; a Python file hides the blocks, even if it is empty;
\* and a message that starts with ! is a command, with its blocks unread.
Readable(m) == {i \in DOMAIN m.files : m.files[i] \in {"file", "empty_file"}}
Runnable(m) == {i \in DOMAIN m.segs : /\ m.segs[i].lang \in {Py} \cup (IF allow_unmarked THEN {""} ELSE {})
                                      /\ ~m.segs[i].empty}

Earliest(S) == CHOOSE i \in S : \A j \in S : i <= j

Meant(m) ==
    IF m.bot \/ m.lead \in {"!pip", "!other"} THEN {}
    ELSE IF m.lead = "/code" THEN {Text(m)}
    ELSE IF Readable(m) # {}
    THEN LET i == Earliest(Readable(m)) IN {IF m.files[i] = "file" THEN <<Files[i]>> ELSE <<>>}
    ELSE IF m.lead = Py /\ m.eol = "nl" /\ m.segs # <<>> THEN {Strip(Text([m EXCEPT !.lead = ""]))}
    ELSE IF Runnable(m) = {} THEN {}
    ELSE IF ~execute_all THEN {<<Codes[Earliest(Runnable(m))]>>}
    ELSE {FlattenSeq([i \in DOMAIN m.segs |->
             IF i \notin Runnable(m) THEN <<>>
             ELSE IF i = Earliest(Runnable(m)) THEN <<Codes[i]>> ELSE <<"nl", Codes[i]>>])}

\* The listener hands on the code that its rules single out and nothing else.  Where they
\* single out the blocks, no words between them, no block in another language and no empty
\* one is taken for code, and no supported block is missed, not even one left open.
RightCode == at = "ended" => handled = Meant(message)

\* A command ends within its time, though pip may never.
CommandEnds == at = "commanding" ~> at = "ended"
================================================================================
