------------------------------- MODULE IniFile -------------------------------
(***************************************************************************)
(* ini: the file as IniFile::load() reads it, one trimmed line after the   *)
(* other, and the conversions of Value.  A file is a sequence of lines:    *)
(*   [is |-> "section", name |-> n]              [n], with "" for [ ]      *)
(*   [is |-> "pair", key |-> k, value |-> v]     k = v                     *)
(*   [is |-> "other"]                            empty, comment, no "="    *)
(***************************************************************************)
EXTENDS Integers, Sequences, FiniteSets, Functions

CONSTANT Number   \* what atoi() makes of the texts that begin with a number

NoText == ""
EmptySection == <<>>
Put(f, k, v) == [x \in DOMAIN f \union {k} |-> IF x = k THEN v ELSE f[x]]

-----------------------------------------------------------------------------
(* IniFile *)

\* a header empties its section, even one that the file has opened before; a
\* pair outside every section opens Global, and empties it as well
ReadSection(at, l) == [section |-> l.name, ini |-> Put(at.ini, l.name, EmptySection)]

InGlobal(at) ==
    IF at.section = NoText
    THEN [section |-> "Global", ini |-> Put(at.ini, "Global", EmptySection)]
    ELSE at

\* Mutant of ReadPair: the first value of a key stays.
ReadPairFirst(at, l) ==
    LET in == InGlobal(at)
    IN  IF l.key \in DOMAIN in.ini[in.section] THEN in
        ELSE [in EXCEPT !.ini[in.section] = Put(@, l.key, l.value)]

ReadPair(at, l) ==
    LET in == InGlobal(at)
    IN  [in EXCEPT !.ini[in.section] = Put(@, l.key, l.value)]

ReadLine(at, l) ==
    CASE l.is = "section" -> ReadSection(at, l)
      [] l.is = "pair" -> ReadPair(at, l)
      [] OTHER -> at

\* load() of a file that opens: what was loaded before is cleared, and then one
\* line is read after the other; where load() is after the first i of them
Opened == [section |-> NoText, ini |-> <<>>]

Loaded(lines) ==
    LET at[i \in 0..Len(lines)] ==
            IF i = 0 THEN Opened ELSE ReadLine(at[i - 1], lines[i])
    IN  at

Parsed(lines) == Loaded(lines)[Len(lines)].ini

HasSection(ini, s) == s \in DOMAIN ini

-----------------------------------------------------------------------------
(* Value: a text *)

\* operator[] of the section makes a key that is not there, with an empty text
Text(section, k) == IF k \in DOMAIN section THEN section[k] ELSE NoText

\* operator int: atoi()
AsInt(text) == IF text \in DOMAIN Number THEN Number[text] ELSE 0

-----------------------------------------------------------------------------
(* The file as its writer reads it, without going through it line by line *)

\* the header line i stands under, 0 for none
Header(lines, i) ==
    LET before == {j \in 1..i : lines[j].is = "section"}
    IN  IF before = {} THEN 0 ELSE CHOOSE j \in before : \A k \in before : k <= j

Named(lines, i) == Header(lines, i) # 0 /\ lines[Header(lines, i)].name # NoText
SectionOf(lines, i) == IF Named(lines, i) THEN lines[Header(lines, i)].name ELSE "Global"

\* line i opens section s: its header, or the first pair under none
Opens(lines, i, s) ==
    \/ lines[i].is = "section" /\ lines[i].name = s
    \/ /\ s = "Global" /\ lines[i].is = "pair" /\ ~ Named(lines, i)
       /\ \A j \in (Header(lines, i) + 1)..(i - 1) : lines[j].is # "pair"

\* the lines that give key k of section s: none later opens s again
Giving(lines, s, k) ==
    {i \in DOMAIN lines :
        /\ lines[i].is = "pair" /\ lines[i].key = k /\ SectionOf(lines, i) = s
        /\ \A j \in (i + 1)..Len(lines) : ~ Opens(lines, j, s)}

\* the last of them counts
Written(lines, s, k) ==
    LET g == Giving(lines, s, k)
    IN  IF g = {} THEN NoText ELSE lines[CHOOSE i \in g : \A j \in g : j <= i].value
=============================================================================
