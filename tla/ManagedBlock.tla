---------------------------- MODULE ManagedBlock ----------------------------
(***************************************************************************)
(* One unix user's authorized_keys: the block Headboard's agents manage in *)
(* it (sshsync/block.go), how an agent rewrites it (agent/apply.go), and    *)
(* people who edit the same file by hand, who may come between the two     *)
(* commands of a rewrite.  The unix user exists throughout; SshSync has the *)
(* one that is gone, and sees of all this only what a block holds.         *)
(***************************************************************************)
EXTENDS Naturals, FiniteSets, SequencesExt

CONSTANTS
  Agent,     \* agents that reach the machine
  Key,       \* lines that start with a key type
  Begin,     \* the line BeginMarker
  End,       \* the line EndMarker
  Quoted,    \* a longer line with the begin marker in it, as CRLF makes one
  Other,     \* any other line
  Order      \* what agents are told: [lines, clear]

VARIABLES
  file,      \* its lines, and whether the last one ends in a line break
  linked,    \* .ssh or authorized_keys is a symlink
  job        \* agent -> the order and file it works on, or the order it last carried out

blockVars == <<file, linked, job>>

Line == Key \union {Begin, End, Quoted, Other}
File == [lines : Seq(Line), final : BOOLEAN]

\* A last line break is missing only where there is a line.
Text == {f \in File : f.lines = <<>> => f.final}

ASSUME BlockAssumption ==
  /\ Order \subseteq [lines : Seq(Line), clear : BOOLEAN]
  /\ \A order \in Order : order.clear => order.lines = <<>>
  /\ Begin # End /\ Begin \notin Key /\ End \notin Key /\ Quoted # Begin /\ Other # Begin

-----------------------------------------------------------------------------
\* Markers count as whole lines; an end before the begin is just a line.
Begins(f) == {i \in DOMAIN f.lines : f.lines[i] = Begin}

Ends_Any(f) == {j \in DOMAIN f.lines : f.lines[j] = End}

Ends(f) == {j \in DOMAIN f.lines : f.lines[j] = End /\ \E i \in Begins(f) : i < j}

Unclear_Broken(f) == Begins(f) # {} /\ Ends(f) = {}

\* ErrDuplicateBlock, and ErrBrokenBlock.
Unclear(f) == Cardinality(Begins(f)) > 1 \/ (Begins(f) # {} /\ Ends(f) = {})

\* For a file that is not Unclear.
ReplaceBlock(f, lines) ==
  LET block == <<Begin>> \o lines \o <<End>>
      begin == Min(Begins(f))
      end   == Min(Ends(f))
  IN IF Begins(f) = {}
     THEN [lines |-> f.lines \o block, final |-> TRUE]
     ELSE [lines |-> SubSeq(f.lines, 1, begin - 1) \o block \o SubSeq(f.lines, end + 1, Len(f.lines)),
           final |-> f.final \/ end = Len(f.lines)]

SafeLine_Any(line) == line \in Line

SafeLine(line) == line \in Key

\* The substring test of a clear.
MentionsMarker(f) == \E i \in DOMAIN f.lines : f.lines[i] \in {Begin, Quoted}

-----------------------------------------------------------------------------
BlockInit(files) ==
  /\ file \in files
  /\ linked = FALSE
  /\ job = [a \in Agent |-> [pc |-> "idle"]]

\* The order is reported as applied or cleared; or as a warning.
Succeeds(a, order) == job' = [job EXCEPT ![a] = [pc |-> "done", order |-> order]]
Fails(a)           == job' = [job EXCEPT ![a] = [pc |-> "idle"]]

Unsafe(order) == \E i \in DOMAIN order.lines : ~SafeLine(order.lines[i])

Untouched(order) == order.clear /\ ~MentionsMarker(file)

\* An order that is refused before anything is written.
Refuse(a, order) ==
  /\ job[a].pc # "writing"
  /\ Unsafe(order) \/ linked \/ (~Untouched(order) /\ Unclear(file))
  /\ Fails(a)
  /\ UNCHANGED <<file, linked>>

\* One that the file already fulfils.
NothingToDo(a, order) ==
  /\ job[a].pc # "writing"
  /\ ~Unsafe(order) /\ ~linked
  /\ Untouched(order) \/ (~Unclear(file) /\ ReplaceBlock(file, order.lines) = file)
  /\ Succeeds(a, order)
  /\ UNCHANGED <<file, linked>>

Read_UnsafeLines(a, order) ==
  /\ job[a].pc # "writing"
  /\ ~linked /\ ~Untouched(order) /\ ~Unclear(file)
  /\ ReplaceBlock(file, order.lines) # file
  /\ job' = [job EXCEPT ![a] = [pc |-> "writing", order |-> order, seen |-> file]]
  /\ UNCHANGED <<file, linked>>

\* readScript: what will be written is fixed here.
Read(a, order) ==
  /\ job[a].pc # "writing"
  /\ ~Unsafe(order) /\ ~linked /\ ~Untouched(order) /\ ~Unclear(file)
  /\ ReplaceBlock(file, order.lines) # file
  /\ job' = [job EXCEPT ![a] = [pc |-> "writing", order |-> order, seen |-> file]]
  /\ UNCHANGED <<file, linked>>

\* writeScript renames a finished copy over whatever is there by now; its
\* exit status may be lost.
Write(a) ==
  /\ job[a].pc = "writing" /\ ~linked
  /\ file' = ReplaceBlock(job[a].seen, job[a].order.lines)
  /\ Succeeds(a, job[a].order) \/ Fails(a)
  /\ UNCHANGED linked

\* A machine that does not answer, or an account that is not sane.
ReadFails(a) ==
  /\ job[a].pc # "writing"
  /\ Fails(a)
  /\ UNCHANGED <<file, linked>>

\* No space, a symlink since the read, a machine that stops, or an agent
\* that dies between the two commands.
WriteFails(a) ==
  /\ job[a].pc = "writing"
  /\ Fails(a)
  /\ UNCHANGED <<file, linked>>

AgentStep(a) ==
  \/ \E order \in Order : Refuse(a, order) \/ NothingToDo(a, order) \/ Read(a, order)
  \/ ReadFails(a) \/ Write(a) \/ WriteFails(a)

-----------------------------------------------------------------------------
\* People at the machine.
InsertByHand(line) ==
  /\ \E i \in 1..Len(file.lines) + 1 :
       file' = [lines |-> InsertAt(file.lines, i, line), final |-> TRUE]
  /\ UNCHANGED <<linked, job>>

RemoveByHand ==
  /\ \E i \in DOMAIN file.lines : file' = [lines |-> RemoveAt(file.lines, i), final |-> TRUE]
  /\ UNCHANGED <<linked, job>>

\* An editor that leaves out the last line break.
DropLineBreak ==
  /\ file.lines # <<>> /\ file.final
  /\ file' = [file EXCEPT !.final = FALSE]
  /\ UNCHANGED <<linked, job>>

Link ==
  /\ linked' = ~linked
  /\ UNCHANGED <<file, job>>

HandStep ==
  \/ \E line \in Line : InsertByHand(line)
  \/ RemoveByHand \/ DropLineBreak \/ Link

BlockNext == HandStep \/ \E a \in Agent : AgentStep(a)

BlockSpec == BlockInit(Text) /\ [][BlockNext]_blockVars

-----------------------------------------------------------------------------
(* Nobody makes a file without a line that lacks a last line break, which   *)
(* ReplaceBlock would lengthen; and between its two commands, and only      *)
(* then, a rewrite goes by a file that was clear when it was read and by    *)
(* lines that are keys (SafeLine, rewrite), whatever the file is by now.    *)
BlockTypeOK ==
  /\ file \in Text
  /\ linked \in BOOLEAN
  /\ job \in [Agent -> [pc : {"idle"}]
                         \union [pc : {"writing"}, order : Order, seen : Text]
                         \union [pc : {"done"}, order : Order]]
  /\ \A a \in Agent : job[a].pc = "writing" => ~Unclear(job[a].seen) /\ ~Unsafe(job[a].order)

\* What a reader of the file takes for managed: from a begin to the first end after it.
Managed(f) ==
  {i \in DOMAIN f.lines : \E b \in 1..i : /\ f.lines[b] = Begin
                                          /\ \A k \in b..i - 1 : f.lines[k] # End}

\* The lines at some places, in their order.
LinesAt(f, at) ==
  [n \in 1..Cardinality(at) |-> f.lines[CHOOSE i \in at : Cardinality({k \in at : k =< i}) = n]]

Outside(f) == LinesAt(f, DOMAIN f.lines \ Managed(f))

(* "Content outside the block is kept" (ReplaceBlock, findBlock): whatever   *)
(* the file looks like, a write keeps every line that was outside the block *)
(* when the agent read it, in order, and the end of the last of them.  What *)
(* people change between the read and the write is not covered: it is lost. *)
OutsideIsKept ==
  [][\A a \in Agent : job[a].pc = "writing" /\ job'[a] # job[a] /\ file' # file =>
       LET seen == job[a].seen IN
         /\ Outside(file') = Outside(seen)
         /\ (Managed(seen) # {} /\ Len(seen.lines) \notin Managed(seen)) => file'.final = seen.final]_blockVars

(* A pair reported as applied holds exactly the order's lines in one block,  *)
(* and one reported as cleared has no block with a line in it (Apply,       *)
(* rewrite): a second copy of a block would keep keys that no order clears. *)
AnswersAreTrue ==
  [][\A a \in Agent : job'[a] # job[a] /\ job'[a].pc = "done" =>
       \/ job'[a].order.clear /\ Begins(file') = {}
       \/ /\ Cardinality(Begins(file')) = 1
          /\ LinesAt(file', Managed(file')) = <<Begin>> \o job'[a].order.lines \o <<End>>]_blockVars

(* No write leaves a file that the next order would refuse (SafeLine,       *)
(* findBlock): refused once, a block is refused until somebody mends it by  *)
(* hand, and the keys in it are never revoked.                              *)
WritesStayReadable ==
  [][job' # job /\ file' # file => ~Unclear(file')]_blockVars
=============================================================================
