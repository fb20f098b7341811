----------------------------- MODULE TopicSyntax ------------------------------
(***************************************************************************)
(* The text of topics (src/src/topic.rs): what Topic::from_str takes, what *)
(* Display and serde make of a Topic, and the segments by which the        *)
(* Directory walks.  Text is a sequence of characters; "f" and "s" stand   *)
(* for [a-z0-9_], "?" for a character that no topic has.                   *)
(***************************************************************************)
EXTENDS Naturals, Sequences, SequencesExt

WordChars == {"f", "s"}
Chars == WordChars \cup {"*", "/", ":", "?"}

Error == [error |-> "InvalidTopicString"]

(* RGX_PATH as an automaton *)
PathStep(q, char) ==
    CASE char \in WordChars /\ q \in {"start", "word"}    -> "word"
      [] char = "*" /\ q = "start"                        -> "star"
      [] char = "*" /\ q = "star"                         -> "doublestar"
      [] char = "/" /\ q \in {"word", "star", "doublestar"} -> "start"
      [] OTHER                                            -> "fail"

(* RGX_PROTOCOL *)
ProtocolStep(q, char) ==
    IF char = "/" \/ q = "star" THEN "fail" ELSE PathStep(q, char)

ValidPath(path) ==
    path = <<>> \/ FoldLeft(PathStep, "start", path) \in {"word", "star", "doublestar"}

ValidProtocol(protocol) == FoldLeft(ProtocolStep, "start", protocol) \in {"word", "star"}

(* Path::new and Topic::new *)
NewTopic(protocol, path) ==
    IF ValidProtocol(protocol) /\ ValidPath(path)
    THEN [protocol |-> protocol, path |-> path]
    ELSE Error

(* split_once *)
Separator(text) == SelectInSeq(text, LAMBDA char : char = ":")

FromStr(text) ==
    LET i == Separator(text)
    IN  IF i = 0 THEN Error
        ELSE NewTopic(SubSeq(text, 1, i - 1), SubSeq(text, i + 1, Len(text)))

Display(topic) == topic.protocol \o <<":">> \o topic.path

(* on the wire a topic is a pair *)
Serialize(topic) == <<topic.protocol, topic.path>>
Deserialize(pair) == NewTopic(pair[1], pair[2])

(* str::split *)
Split(text) ==
    FoldLeft(LAMBDA parts, char :
                IF char = "/" THEN Append(parts, <<>>)
                ELSE [parts EXCEPT ![Len(parts)] = Append(@, char)],
             << <<>> >>, text)

(* slip: the root is split, too *)
SplitSegments(path) == Split(path)

PathSegments(path) == IF path = <<>> THEN <<>> ELSE Split(path)

Segments(topic) == <<topic.protocol>> \o PathSegments(topic.path)

Join(segments) ==
    FoldLeft(LAMBDA path, i : path \o (IF i > 1 THEN <<"/">> ELSE <<>>) \o segments[i],
             <<>>, [i \in DOMAIN segments |-> i])

FromValidSegments(segments) ==
    [protocol |-> Head(segments), path |-> Join(Tail(segments))]
=============================================================================
