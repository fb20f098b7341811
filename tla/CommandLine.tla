----------------------------- MODULE CommandLine ------------------------------
(***************************************************************************)
(* Invocations of the t2 tool (src/src/bin/t2.rs), side by side: they      *)
(* share the registry of named buses, the file ~/.t2, which each reads and *)
(* rewrites whole, without a lock.  Between the open that truncates the    *)
(* file and the write that follows there are other invocations, or a kill; *)
(* and the write can fail, with part of the text in the file.              *)
(*                                                                         *)
(* The file is text: a line is the characters of a name and then an        *)
(* address, which is one symbol that ends the line.  Two writers in the    *)
(* file at once leave the text of the later one and, when it is longer,    *)
(* the rest of the earlier one's behind it.                                *)
(***************************************************************************)
EXTENDS TopicSyntax, FiniteSets

CONSTANTS
    Procs,          \* the invocations
    Jobs,           \* what they are asked to do: functions from Procs to Commands
    Commands,       \* records [op, name, default, addrs, topic, number]; or Idle
    Earlier,        \* registries that earlier invocations have left
    Addrs,          \* addresses, tcp or unix
    Parses          \* those that builder or connect can take: a tcp one has a port

(* An address argument is an address of Addrs, the name of one, or Default when
   it is left out.  "number" says that value parses as an f32. *)
Named(name) == [name |-> name]
Default == [default |-> TRUE]
Idle == [op |-> "idle"]

Writers == {"register", "unregister"}

(* BUS_ADDR_NAME_RGX; an entry of the registry; an address argument, where
   BUS_ADDR_RGX takes any text for a name *)
Names == Seq(WordChars) \ {<<>>}
Entries == [name : Names, addr : Addrs]
Args == Addrs \cup {Default} \cup [name : Seq(Chars) \ {<<>>}]

ASSUME CommandLineAssumption ==
    /\ IsFiniteSet(Procs) /\ Parses \subseteq Addrs /\ Addrs \cap WordChars = {}
    /\ Jobs \subseteq [Procs -> Commands \cup {Idle}]
    /\ \A cmd \in Commands :
          /\ cmd.addrs \in Seq(Args)
          /\ cmd.op \in Writers => cmd.name \in Names
          /\ cmd.op = "register" => Len(cmd.addrs) = 1
    /\ \A entries \in Earlier :
          /\ entries \in Seq(Entries)
          /\ \A i, j \in DOMAIN entries : entries[i].name = entries[j].name => i = j

VARIABLES
    home,       \* whether HOME is set
    file,       \* the text of ~/.t2
    command,    \* of each invocation
    pc,         \* what it does next
    todo,       \* the address arguments it has still to resolve
    addrs,      \* what the others have resolved to
    config,     \* the entries it has read, and changed
    result,     \* how it ended
    (* history *)
    mixed,      \* two writers have been in the file at once
    known,      \* the entries that were to be registered
    seen,       \* the writers that had written when each read the registry whole
    over        \* those that had when each opened the file

vars == <<home, file, command, pc, todo, addrs, config, result, mixed, known, seen, over>>
history == <<mixed, known, seen, over>>

(* f32 and string *)
F32Prefix == <<"f">>
StringPrefix == <<"s">>

(* The registry as text: "{name} {addr}\n" for each entry *)
Entry(name, addr) == [name |-> name, addr |-> addr]

Format(entries) == FlattenSeq([i \in DOMAIN entries |-> entries[i].name \o <<entries[i].addr>>])

Init ==
    /\ home \in BOOLEAN
    /\ \E entries \in Earlier :
          /\ file = Format(entries)
          /\ known = {entries[i] : i \in DOMAIN entries}
    /\ command \in Jobs
    /\ pc = [p \in Procs |-> IF command[p] = Idle THEN "done" ELSE "parse"]
    /\ todo = [p \in Procs |-> <<>>] /\ addrs = todo /\ config = todo
    /\ result = [p \in Procs |-> "none"]
    /\ mixed = FALSE
    /\ seen = [p \in Procs |-> {}] /\ over = seen

-----------------------------------------------------------------------------
(* The registry as it is read and changed *)

(* BUS_ADDR_CONFIG_RGX: a name of at least one character, an address, and the
   end of the line; text that makes no line is passed over.  "name" is what has
   come since the last address. *)
Matched(found, s) ==
    IF s \notin Addrs THEN [found EXCEPT !.name = Append(@, s)]
    ELSE IF found.name = <<>> THEN found
    ELSE [name |-> <<>>, entries |-> Append(found.entries, Entry(found.name, s))]

Matches(text) ==
    LET found[n \in 0..Len(text)] ==
            IF n = 0 THEN [name |-> <<>>, entries |-> <<>>]
            ELSE Matched(found[n - 1], text[n])
    IN  found

Parse(text) == Matches(text)[Len(text)].entries

ParseConfig == IF home THEN Parse(file) ELSE <<>>

NamedIn(entries, name) == {i \in DOMAIN entries : entries[i].name = name}

(* find: the first *)
Found(entries, name) ==
    LET matches == NamedIn(entries, name)
    IN  entries[CHOOSE i \in matches : \A j \in matches : i <= j].addr

(* retain, of the first n entries *)
Retained(entries, name) ==
    LET kept[n \in 0..Len(entries)] ==
            IF n = 0 THEN <<>>
            ELSE IF entries[n].name = name THEN kept[n - 1]
            ELSE Append(kept[n - 1], entries[n])
    IN  kept

Without(entries, name) == Retained(entries, name)[Len(entries)]

(* slip: an entry of that name stays *)
PushOnly(entries, cmd, addr) ==
    IF cmd.default THEN <<Entry(cmd.name, addr)>> \o entries
    ELSE Append(entries, Entry(cmd.name, addr))

Registered(entries, cmd, addr) ==
    IF cmd.default THEN <<Entry(cmd.name, addr)>> \o Without(entries, cmd.name)
    ELSE Append(Without(entries, cmd.name), Entry(cmd.name, addr))

-----------------------------------------------------------------------------
(* One invocation *)

Becomes(p, next) == pc' = [pc EXCEPT ![p] = next]

(* slip: an error does not reach the exit code *)
EndsSilently(p, how) == Becomes(p, "done") /\ UNCHANGED result

Ends(p, how) == Becomes(p, "done") /\ result' = [result EXCEPT ![p] = how]

(* The topic of a command, which clap parses, and Commands::validate *)
TopicOk(cmd) ==
    cmd.op \in {"sub", "ls", "pub"} => FromStr(cmd.topic) # Error

Validate(cmd) ==
    cmd.op = "pub" =>
        LET protocol == FromStr(cmd.topic).protocol
        IN  /\ protocol \in {F32Prefix, StringPrefix}
            /\ protocol = F32Prefix => cmd.number

(* a writer looks for HOME before anything else *)
Start(p) ==
    /\ pc[p] = "parse"
    /\ LET cmd == command[p]
           ok == TopicOk(cmd) /\ Validate(cmd) /\ (cmd.op \in Writers => home)
       IN  IF ok
           THEN /\ Becomes(p, IF cmd.addrs = <<>> THEN "resolved" ELSE "resolve")
                /\ todo' = [todo EXCEPT ![p] = cmd.addrs]
                /\ UNCHANGED result
           ELSE Ends(p, "error") /\ UNCHANGED todo
    /\ UNCHANGED <<home, file, command, addrs, config, history>>

(* parse_config: the file is there and cannot be read *)
Unreadable(p) ==
    /\ home
    /\ \/ pc[p] = "resolve" /\ Head(todo[p]) \notin Addrs
       \/ pc[p] = "resolved" /\ command[p].op \in Writers
    /\ Ends(p, "panic")
    /\ UNCHANGED <<home, file, command, todo, addrs, config, history>>

(* resolve_addr, of the next argument; serve parses each before the next *)
Resolves(p, addr) ==
    IF command[p].op = "serve" /\ addr \notin Parses
    THEN Ends(p, "error") /\ UNCHANGED <<todo, addrs>>
    ELSE /\ addrs' = [addrs EXCEPT ![p] = Append(@, addr)]
         /\ todo' = [todo EXCEPT ![p] = Tail(@)]
         /\ Becomes(p, IF Len(todo[p]) = 1 THEN "resolved" ELSE "resolve")
         /\ UNCHANGED result

Resolve(p) ==
    /\ pc[p] = "resolve"
    /\ LET arg == Head(todo[p])
           entries == ParseConfig
       IN  IF arg \in Addrs THEN Resolves(p, arg)
           ELSE IF arg = Default
           THEN IF entries = <<>> THEN Ends(p, "error") /\ UNCHANGED <<todo, addrs>>
                ELSE Resolves(p, Head(entries).addr)
           ELSE IF NamedIn(entries, arg.name) = {}
                THEN Ends(p, "error") /\ UNCHANGED <<todo, addrs>>
                ELSE Resolves(p, Found(entries, arg.name))
    /\ UNCHANGED <<home, file, command, config, history>>

(* build and join, or connect and what follows, any of which can fail *)
Connect(p) ==
    /\ pc[p] = "resolved" /\ command[p].op \notin Writers
    /\ \/ (\A i \in DOMAIN addrs[p] : addrs[p][i] \in Parses) /\ Ends(p, "connected")
       \/ Ends(p, "error")
    /\ UNCHANGED <<home, file, command, todo, addrs, config, history>>

InFile == {p \in Procs : pc[p] = "write"}
HaveWritten == {p \in Procs : result[p] = "written"}

(* the registry is read again, whatever resolve_addr has read *)
ReadConfig(p) ==
    /\ pc[p] = "resolved" /\ command[p].op \in Writers
    /\ config' = [config EXCEPT ![p] =
           IF command[p].op = "register" THEN Registered(ParseConfig, command[p], addrs[p][1])
           ELSE Without(ParseConfig, command[p].name)]
    /\ Becomes(p, "truncate")
    /\ known' = IF command[p].op = "register"
                THEN known \cup {Entry(command[p].name, addrs[p][1])} ELSE known
    /\ seen' = [seen EXCEPT ![p] = IF InFile = {} THEN HaveWritten ELSE {}]
    /\ UNCHANGED <<home, file, command, todo, addrs, result, mixed, over>>

(* slip: the file is opened without O_TRUNC *)
OpenedAsItIs(text) == text

Opened(text) == <<>>

(* std::fs::write opens the file, *)
Truncate(p) ==
    /\ pc[p] = "truncate"
    /\ file' = Opened(file)
    /\ Becomes(p, "write")
    /\ mixed' = (mixed \/ InFile # {})
    /\ over' = [over EXCEPT ![p] = HaveWritten]
    /\ UNCHANGED <<home, command, todo, addrs, config, result, known, seen>>

TruncateFails(p) ==
    /\ pc[p] = "truncate"
    /\ Ends(p, "error")
    /\ UNCHANGED <<home, file, command, todo, addrs, config, history>>

Overwrite(text, new) == new \o SubSeq(text, Len(new) + 1, Len(text))

(* and writes from its start *)
Write(p) ==
    /\ pc[p] = "write"
    /\ file' = Overwrite(file, Format(config[p]))
    /\ Ends(p, "written")
    /\ UNCHANGED <<home, command, todo, addrs, config, history>>

(* after some of the text *)
WriteFails(p) ==
    /\ pc[p] = "write"
    /\ LET text == Format(config[p])
       IN  \E n \in 0..Len(text) :
             n < Len(text) /\ file' = Overwrite(file, SubSeq(text, 1, n))
    /\ Ends(p, "error")
    /\ UNCHANGED <<home, command, todo, addrs, config, history>>

(* from outside *)
Kill(p) ==
    /\ pc[p] # "done"
    /\ Ends(p, "killed")
    /\ UNCHANGED <<home, file, command, todo, addrs, config, history>>

Step(p) ==
    \/ Start(p) \/ Unreadable(p) \/ Resolve(p) \/ Connect(p)
    \/ ReadConfig(p) \/ Truncate(p) \/ TruncateFails(p) \/ Write(p) \/ WriteFails(p)

Next == \E p \in Procs : Step(p) \/ Kill(p)

Spec == Init /\ [][Next]_vars
=============================================================================
