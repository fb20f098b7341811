------------------------ MODULE CommandLineProperties -------------------------
(* What makes the t2 tool of module CommandLine, and its topics, correct. *)
EXTENDS CommandLine

(* The type invariant *)
TypeOK ==
    /\ mixed \in BOOLEAN
    /\ \A p \in Procs :
          /\ pc[p] \in {"parse", "resolve", "resolved", "truncate", "write", "done"}
          /\ pc[p] = "done" /\ command[p] # Idle =>
                result[p] \in {"connected", "written", "error", "panic", "killed"}
          /\ addrs[p] \in Seq(Addrs)
          /\ \A i \in DOMAIN config[p] : config[p][i].addr \in Addrs

-----------------------------------------------------------------------------
Bindings(entries) == {entries[i] : i \in DOMAIN entries}
DefaultName(entries) == IF entries = <<>> THEN <<>> ELSE Head(entries).name

(* The file has of p's name what p is to make of it. *)
Stands(p) ==
    {b \in Bindings(Parse(file)) : b.name = command[p].name} =
        IF command[p].op = "register" THEN {Entry(command[p].name, addrs[p][1])} ELSE {}

(* q has truncated what p wrote, and what it has put there is not a registry
   that it read from p's on, with another name changed. *)
Undoes(q, p) ==
    /\ p \in over[q]
    /\ \/ result[q] # "written"
       \/ p \notin seen[q]
       \/ command[q].name = command[p].name

IsUndone(p) == \E q \in Procs : Undoes(q, p)

(* What a register or an unregister has done, when it ends without an error,
   lasts: its name has one entry, with its address, or none, until a later
   command changes that name, has read the registry before it was written, or
   while another was about to, or opens the file and does not come to write it,
   because it is killed or the write fails; and its default is only replaced by
   another (t2.rs:258-274, 281-289).  It is no matter how many other names are
   changed, with what default, or by how many at once. *)
EffectsLast ==
    ~mixed => \A p \in HaveWritten : ~IsUndone(p) =>
        /\ Stands(p)
        /\ command[p].op = "register" /\ command[p].default =>
              \/ DefaultName(Parse(file)) = command[p].name
              \/ \E q \in Procs : /\ p \in over[q] /\ command[q].op = "register"
                                  /\ command[q].default

(* An invocation is led to an address under a name only when somebody has
   asked to register just that, unless two writers have been in the file at
   once and left a line that is the end of another (t2.rs:13, 274, 319-325). *)
UsesWhatWasRegistered ==
    ~mixed => \A p \in Procs : \A i \in DOMAIN addrs[p] :
        LET arg == command[p].addrs[i]
        IN  \/ arg = addrs[p][i]
            \/ \E e \in known : e.addr = addrs[p][i] /\ arg \in {Default, Named(e.name)}

-----------------------------------------------------------------------------
(* Topics *)

IsWord(text) == text # <<>> /\ \A i \in DOMAIN text : text[i] \in WordChars
IsSegment(text) == IsWord(text) \/ text \in {<<"*">>, <<"*", "*">>}

(* what lies between two separators, or between one and an end of text *)
PartsOf(text) ==
    LET cut(i) == i \in {0, Len(text) + 1} \/ text[i] = "/"
    IN  {SubSeq(text, ij[1] + 1, ij[2] - 1) : ij \in
            {ij \in (0..Len(text)) \X (1..Len(text) + 1) :
                /\ ij[1] < ij[2] /\ cut(ij[1]) /\ cut(ij[2])
                /\ \A k \in ij[1] + 1..ij[2] - 1 : ~cut(k)}}

(* <protocol>:<path>, as the module's doc has it (topic.rs:3-6, 28-31) *)
IsTopicText(text) ==
    \E i \in DOMAIN text :
        LET protocol == SubSeq(text, 1, i - 1)
            path == SubSeq(text, i + 1, Len(text))
        IN  /\ text[i] = ":"
            /\ IsWord(protocol) \/ protocol = <<"*">>
            /\ path = <<>> \/ \A part \in PartsOf(path) : IsSegment(part)

TopicTexts == {command[p].topic : p \in {q \in Procs : command[q] # Idle}}

(* Just the texts of topics are taken for one; a topic is printed as it was
   written, comes through the wire as it was, and is what its segments make,
   by which the Directory stores it, and none of which is empty
   (topic.rs:22-26, 56-72, 153-226). *)
TopicIsItsText ==
    \A text \in TopicTexts :
        LET topic == FromStr(text)
        IN  /\ topic # Error <=> IsTopicText(text)
            /\ topic # Error =>
                  /\ Display(topic) = text
                  /\ Deserialize(Serialize(topic)) = topic
                  /\ \A i \in DOMAIN Segments(topic) : IsSegment(Segments(topic)[i])
                  /\ FromValidSegments(Segments(topic)) = topic
=============================================================================
