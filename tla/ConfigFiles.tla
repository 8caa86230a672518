---------------------------- MODULE ConfigFiles ----------------------------
(***************************************************************************)
(* The parsers of configuration files under cli/: files of apache          *)
(* (apache_conf_parser.py), which are read line by line into nested        *)
(* directives, files of nfs-ganesha (ganesha_parse.py), which are read     *)
(* character by character and whose blocks are read again, and files of    *)
(* key=value lines (LinuxConfigParser.py), which are changed and written.  *)
(* A name, a number or a word is one symbol here.                          *)
(***************************************************************************)
EXTENDS Integers, Sequences, SequencesExt

CONSTANTS
    Formats,   \* of "apache", "ganesha", "linux"
    Name,      \* of apache's directives
    NestLimit, \* ComplexNode.NESTING_LIMIT
    Key, Val,  \* of key=value lines; a value may hold a '#'
    MaxText    \* format -> bound of the length of a file

ConfigAssumption ==
    /\ Formats \subseteq {"apache", "ganesha", "linux"} /\ NestLimit \in Nat
    /\ Val \subseteq [word : STRING, hash : BOOLEAN] /\ MaxText \in [Formats -> Nat]

VARIABLES
    format,  \* the parser
    text,    \* the file, as far as it was read or as it was written
    conf,    \* apache: the directives that wait for more lines, outermost first
    items,   \* linux: LinuxConfigParser._list
    wasread   \* linux: whether the last read succeeded

vars == <<format, text, conf, items, wasread>>

-----------------------------------------------------------------------------
(* apache_conf_parser: kinds of lines.  `more` is a line that ends with a   *)
(* backslash, `end` one that has a '>' and no '<'.                          *)

Line == [t : {"comment", "comment more", "blank", "word", "word more", "word end", "end"}, n : {""}]
        \cup [t : {"open", "open more", "close"}, n : Name]

More(l) == l.t \in {"comment more", "word more", "open more"}

\* What waits: a simple directive for the rest of its line, a complex one for its
\* header ("header" if it is stable, "header more" after a backslash) or its body.
Simple     == [at |-> "simple", n |-> ""]
Complex(l) == [at |-> IF More(l) THEN "header more" ELSE "body", n |-> l.n]
Start      == [at |-> "reading", open |-> <<>>]
Raised     == [at |-> "raised", open |-> <<>>]

Open(c, node)  == [c EXCEPT !.open = Append(@, node)]
Close(c)       == [c EXCEPT !.open = Front(@)]
Become(c, s)   == [c EXCEPT !.open[Len(c.open)].at = s]

\* ComplexNode.get_node; a word with a '>' is a simple directive.
NewNode(c, l) ==
    CASE l.t \in {"comment", "blank", "word", "word end"} -> c
      [] l.t = "word more"            -> Open(c, Simple)
      [] l.t \in {"open", "open more"} -> Open(c, Complex(l))
      [] OTHER                        -> Raised

\* SimpleDirective.add_line of a line that goes on: an empty one is refused.
Continue(c, l) == IF l.t = "blank" THEN Raised ELSE IF More(l) THEN c ELSE Close(c)

\* ComplexDirective.add_line while the header is not complete
Header(c, l) ==
    CASE l.t = "blank"                        -> c
      [] l.t \in {"comment", "word"}           -> Become(c, "header")
      [] l.t \in {"comment more", "word more"} -> Become(c, "header more")
      [] l.t = "word end"                     -> Become(c, "body")
      [] l.t = "end" /\ Last(c.open).at = "header" -> Become(c, "body")
      [] OTHER                                -> Raised

\* A level of nesting counts twice: once in the directive, once in its body.
\* (Mutant: once.)
BugTooDeep(level) == level > NestLimit
TooDeep(level)    == 2 * level > NestLimit

\* ApacheConfParser.add_line.  (Mutant: the name of a closing tag is not compared.)
BugAddLine(c, l) ==
    LET above == Len(c.open) - 1
    IN CASE c.open = <<>>               -> NewNode(c, l)
         [] TooDeep(above)              -> Raised
         [] Last(c.open).at = "simple"  -> Continue(c, l)
         [] Last(c.open).at # "body"    -> Header(c, l)
         [] l.t = "close"               -> Close(c)
         [] TooDeep(Len(c.open))        -> Raised
         [] OTHER                       -> NewNode(c, l)
AddLine(c, l) ==
    LET above == Len(c.open) - 1
    IN CASE c.open = <<>>               -> NewNode(c, l)
         [] TooDeep(above)              -> Raised
         [] Last(c.open).at = "simple"  -> Continue(c, l)
         [] Last(c.open).at # "body"    -> Header(c, l)
         [] l.t = "close" /\ l.n = Last(c.open).n -> Close(c)
         [] TooDeep(Len(c.open))        -> Raised
         [] OTHER                       -> NewNode(c, l)

ReadLine ==
    /\ format = "apache" /\ conf.at = "reading" /\ Len(text) < MaxText[format]
    /\ \E l \in Line : text' = Append(text, l) /\ conf' = AddLine(conf, l)
    /\ UNCHANGED <<format, items, wasread>>

\* parse: nothing may wait at the end of the file.
EndOfFile ==
    /\ format = "apache" /\ conf.at = "reading"
    /\ conf' = [conf EXCEPT !.at = IF conf.open = <<>> THEN "complete" ELSE "unfinished"]
    /\ UNCHANGED <<format, text, items, wasread>>

-----------------------------------------------------------------------------
(* ganesha_parse: a list of keys with a value, or with a list. *)

Symbol == {"k", "=", ";", "{", "}", "#", "newline"}

Blank(s) == s = "newline"
Strip(s) ==
    LET kept == {i \in DOMAIN s : ~Blank(s[i])}
    IN IF kept = {} THEN <<>> ELSE SubSeq(s, Min(kept), Max(kept))

\* What was read of a list; a block in it is its key, what is in the block, and its
\* end.
None == [st |-> "none", key |-> <<>>, value |-> <<>>, deep |-> 0, list |-> <<>>]
Fail == [None EXCEPT !.st = "raised"]
Pair(k, w)    == <<[key |-> k, word |-> w]>>
Add(p, pairs) == [None EXCEPT !.list = p.list \o pairs]

\* (Mutant: a comment ends with its first symbol.)
BugNote(p, c) == [p EXCEPT !.st = "none"]
Note(p, c)    == IF Blank(c) THEN [p EXCEPT !.st = "none"] ELSE p

\* _parse_list; front_brace_cnt - back_brace_cnt is `deep`.
Accept(parsed, p, c) ==
    CASE p.st = "none" ->
             IF Blank(c) THEN p ELSE IF c \in {"{", "}", "=", ";"} THEN Fail
             ELSE IF c = "#" THEN [p EXCEPT !.st = "note"] ELSE [p EXCEPT !.st = "key", !.key = <<c>>]
      [] p.st = "note" -> Note(p, c)
      [] p.st = "key" ->
             IF c = "=" THEN IF Contains(Strip(p.key), "newline") THEN Fail
                             ELSE [p EXCEPT !.st = "value", !.key = Strip(@)]
             ELSE IF c = "{" THEN [p EXCEPT !.st = "list", !.key = Strip(@)]
             ELSE IF c \in {"}", ";"} THEN Fail ELSE [p EXCEPT !.key = Append(@, c)]
      [] p.st = "value" ->
             IF c \in {"{", "}", "=", "#"} THEN Fail
             ELSE IF c # ";" THEN [p EXCEPT !.value = Append(@, c)]
             ELSE IF Contains(Strip(p.value), "newline") THEN Fail
             ELSE Add(p, Pair(p.key, Strip(p.value)))
      [] p.st = "list" ->
             IF c = "}" /\ p.deep = 0
             THEN LET inner == parsed[p.value]
                  IN IF inner.st = "raised" THEN Fail
                     ELSE Add(p, Pair(p.key, <<"{">>) \o inner.list \o Pair(<<>>, <<"}">>))
             ELSE [p EXCEPT !.value = Append(@, c),
                            !.deep = IF c = "{" THEN @ + 1 ELSE IF c = "}" THEN @ - 1 ELSE @]
      [] OTHER -> p

\* A text that does not end where a key may begin is refused.
Parsed[s \in Seq(Symbol)] ==
    LET p == FoldLeft(LAMBDA q, c : Accept(Parsed, q, c), None, s)
    IN IF p.st \in {"none", "note"} THEN p ELSE Fail

ParseList(s) == Parsed[s]

\* _dump_list  (Mutant: no semicolons.)
BugDump(list) ==
    FlattenSeq([i \in DOMAIN list |->
        list[i].key \o (CASE list[i].word = <<"{">> -> <<"{", "newline">>
                          [] list[i].word = <<"}">> -> <<"}", "newline">>
                          [] OTHER -> <<"=">> \o list[i].word \o <<"newline">>)])
Dump(list) ==
    FlattenSeq([i \in DOMAIN list |->
        list[i].key \o (CASE list[i].word = <<"{">> -> <<"{", "newline">>
                          [] list[i].word = <<"}">> -> <<"}", "newline">>
                          [] OTHER -> <<"=">> \o list[i].word \o <<";", "newline">>)])

\* Reading stops at the first symbol that is refused whatever follows.
ReadSymbol ==
    /\ format = "ganesha" /\ Len(text) < MaxText[format]
    /\ FoldLeft(LAMBDA q, c : Accept(Parsed, q, c), None, text).st # "raised"
    /\ \E c \in Symbol : text' = Append(text, c)
    /\ UNCHANGED <<format, conf, items, wasread>>

-----------------------------------------------------------------------------
(* LinuxConfigParser: lines of a key and a value, and others. *)

Other    == [k |-> "", v |-> [word |-> "comment", hash |-> FALSE]]
Item     == [k : Key, v : Val] \cup {Other}
Short(v) == [v EXCEPT !.hash = FALSE]   \* what is before the '#'
ItemsOf(s) == [i \in DOMAIN s |-> [s[i] EXCEPT !.v = Short(@)]]

\* A read that fails leaves an empty list.
Read ==
    /\ format = "linux"
    /\ \/ items' = ItemsOf(text) /\ wasread' = TRUE
       \/ items' = <<>> /\ wasread' = FALSE
    /\ UNCHANGED <<format, text, conf>>

\* The first item of that key is changed.
Set(k, v) ==
    LET found == {i \in DOMAIN items : items[i].k = k}
    IN /\ format = "linux"
       /\ IF found # {}
          THEN items' = [items EXCEPT ![CHOOSE i \in found : \A j \in found : i <= j].v = v]
          ELSE /\ Len(items) < MaxText[format]
               /\ items' = Append(items, [k |-> k, v |-> v])
       /\ UNCHANGED <<format, text, conf, wasread>>

\* (Mutant: `and` for `or` in its condition.)
BugRemoveKey(k) ==
    /\ format = "linux" /\ items' = SelectSeq(items, LAMBDA i : i # Other /\ i.k # k)
    /\ UNCHANGED <<format, text, conf, wasread>>
RemoveKey(k) ==
    /\ format = "linux" /\ items' = SelectSeq(items, LAMBDA i : i.k # k)
    /\ UNCHANGED <<format, text, conf, wasread>>

\* A write that fails to open the file changes nothing.
Write ==
    /\ format = "linux" /\ text' = items
    /\ UNCHANGED <<format, conf, items, wasread>>

-----------------------------------------------------------------------------
TypeOK ==
    /\ format \in Formats /\ wasread \in BOOLEAN
    /\ conf.at \in {"reading", "complete", "unfinished", "raised"}
    /\ Len(text) <= MaxText[format] /\ Len(items) <= MaxText[format]
    /\ \A i \in DOMAIN items : items[i] \in Item
    /\ \A i \in DOMAIN text : CASE format = "apache"  -> text[i] \in Line
                              [] format = "ganesha" -> text[i] \in Symbol
                              [] format = "linux"   -> text[i] \in Item

Init ==
    /\ format \in Formats /\ conf = Start /\ items = <<>> /\ wasread = FALSE
    /\ IF format # "linux" THEN text = <<>>
       ELSE text \in UNION {[1..n -> Item] : n \in 0..MaxText[format]}

Edit == Read \/ Write \/ \E k \in Key : RemoveKey(k) \/ \E v \in Val : Set(k, v)

Next == ReadLine \/ EndOfFile \/ ReadSymbol \/ Edit
Spec == Init /\ [][Next]_vars

-----------------------------------------------------------------------------
(* What the code keeps. *)

\* Whether line i goes on with what a line before it began.
Goes(s) ==
    LET goes[i \in Nat] ==
        /\ i > 1
        /\ \/ More(s[i - 1])
           \/ \E j \in 1..i - 1 :
                 /\ s[j].t = "open more" /\ ~goes[j]
                 /\ \A k \in j + 1..i - 1 : s[k].t \notin {"word end", "end"}
    IN {i \in DOMAIN s : goes[i]}

Opening(s) == {i \in DOMAIN s : s[i].t \in {"open", "open more"}} \ Goes(s)
Closing(s) == {i \in DOMAIN s : s[i].t = "close"} \ Goes(s)
Deep(s, i) == Cardinality({j \in Opening(s) : j <= i}) - Cardinality({j \in Closing(s) : j <= i})

\* The closing tag in line j belongs to the directive that was opened last.
Matches(s, j) ==
    \E i \in Opening(s) : /\ i < j /\ s[i].n = s[j].n /\ Deep(s, i) = Deep(s, j) + 1
                          /\ \A k \in i..j - 1 : Deep(s, k) >= Deep(s, i)

Nested(s) == Deep(s, Len(s)) = 0 /\ \A j \in Closing(s) : Matches(s, j)

\* Lines that may not stand where they stand.
Misplaced(s, i) ==
    IF i \in Goes(s) THEN s[i].t \in {"blank", "open", "open more", "close", "end"}
    ELSE s[i].t \in {"comment more", "end"}

\* A file that is accepted has its directives nested; one that is refused has a line
\* that closes nothing or may not be there, or too many levels.
ApacheIsNested ==
    format = "apache" =>
        /\ conf.at = "complete" => Nested(text)
        /\ conf.at # "raised" =>
               \A i \in DOMAIN text \ (Goes(text) \cup Opening(text)) : 2 * Deep(text, i) <= NestLimit
        /\ conf.at = "unfinished" =>
               \/ Deep(text, Len(text)) > 0 \/ More(Last(text))
        /\ conf.at = "raised" =>
               \/ \E j \in Closing(text) : ~Matches(text, j)
               \/ \E i \in DOMAIN text : Misplaced(text, i)
               \/ \E i \in DOMAIN text : 2 * Deep(text, i) > NestLimit

\* What was read from a file of ganesha is read again from what is written.
WrittenIsRead ==
    format = "ganesha" =>
        LET p == ParseList(text) IN p.st # "raised" => ParseList(Dump(p.list)).list = p.list

\* A comment that stands where a key may begin has no effect, unless it holds a
\* brace in a block.
Comments(s) ==
    {r \in {<<i, j>> : i, j \in DOMAIN s} :
        /\ r[1] < r[2] /\ s[r[1]] = "#" /\ Blank(s[r[2]])
        /\ \A k \in r[1]..r[2] - 1 : s[k] \notin {"newline", "{", "}"}
        /\ \A h \in 1..r[1] - 1 : s[h] = "#" => \E k \in h..r[1] : Blank(s[k])
        /\ r[1] = 1 \/ s[r[1] - 1] \in {"{", "}", ";"}}
Without(s, r) == SubSeq(s, 1, r[1] - 1) \o SubSeq(s, r[2] + 1, Len(s))
CommentsAreSkipped ==
    format = "ganesha" =>
        \A r \in Comments(text) : ParseList(Without(text, r)) = ParseList(text)

\* Whatever is set or removed, the other lines of a file stay as they are, in their
\* order, as long as what is written was read.
Others(s) == SelectSeq(s, LAMBDA i : i = Other)
OthersStay == [][format = "linux" /\ wasread => Others(text') = Others(text)]_vars
=============================================================================
