--------------------------------- MODULE Ini ---------------------------------
(***************************************************************************)
(* The parser of the configuration file (ini.c): the store, three parallel *)
(* arrays that grow by INI_MINSIZE and are searched by hash and name, and  *)
(* ini_parse_file, which joins lines that end in a backslash and fills the *)
(* store line by line.                                                     *)
(*                                                                         *)
(* A line of the file is given by what ini_parse_line makes of it when it  *)
(* stands alone, by its text, and by whether it ends in a backslash.       *)
(* Values are not quoted; a line that is continued is a value, a comment   *)
(* or blank.  The key "section:key" is the pair of its parts: sections and *)
(* keys with a ':' in their names, which the concatenation would confuse,  *)
(* are left out.                                                           *)
(***************************************************************************)
EXTENDS Integers, Sequences

CONSTANTS
    IniKeys,       \* keys of the store: <<section, key>> and <<section>>
    Hash,          \* ini_hash
    Null,          \* no value: a section
    INI_MINSIZE,
    Files,         \* the files, as sequences of lines
    Garbage        \* what the buffer of the section name may hold at first

Line == [kind : {"empty", "comment", "section", "value", "error"},
         name : STRING,     \* of the section or the key
         value : STRING,    \* of the key
         text : STRING,     \* of the whole line
         cont : BOOLEAN]    \* does it end in a backslash

ASSUME IniAssumption ==
    /\ Hash \in [IniKeys -> Nat]
    /\ INI_MINSIZE \in Nat \ {0}
    /\ IniKeys \subseteq Seq(STRING)
    /\ Files \subseteq Seq(Line)
    /\ \A f \in Files : \A i \in DOMAIN f :
          f[i].cont => f[i].kind \in {"value", "comment", "empty"}

VARIABLES
    key,      \* key[i], or Empty for a free slot; so val and hash
    val,
    hash,
    num,      \* used slots
    size,     \* slots
    file,     \* the file
    pos,      \* lines read
    held,     \* the lines that wait for their continuation
    section,  \* name of the section
    pc        \* "parse", "parsed", "released"

store == <<key, val, hash, num, size>>
vars == <<store, file, pos, held, section, pc>>

Empty == << >>

-----------------------------------------------------------------------------
(* The store *)

(* variant: the names are not compared *)
same_hash(i, k) == key[i] # Empty /\ hash[i] = Hash[k]

same_key(i, k) == key[i] # Empty /\ hash[i] = Hash[k] /\ key[i] = k

ini_find(k) == IF num <= 0 THEN {} ELSE {i \in 1 .. size : same_key(i, k)}

First(S) == CHOOSE i \in S : \A j \in S : i <= j

(* variant: the arrays grow one entry too late *)
ini_full_late == num > size

ini_full == num = size

(* ini_alloc: larger arrays, the old entries first. *)
Extended(a, more) == [i \in 1 .. size + more |-> IF i <= size THEN a[i] ELSE Empty]

ini_add(k, v) ==
    LET more == IF ini_full THEN INI_MINSIZE ELSE 0
        keys == Extended(key, more)
        free == {i \in 1 .. size + more : keys[i] = Empty}
        slot == IF free = {} THEN size + more + 1 ELSE First(free)
    IN  /\ size' = size + more
        /\ key' = [keys EXCEPT ![slot] = k]
        /\ val' = [Extended(val, more) EXCEPT ![slot] = v]
        /\ hash' = [Extended(hash, more) EXCEPT ![slot] = Hash[k]]
        /\ num' = num + 1

ini_set(k, v) ==
    \/ /\ ini_find(k) # {}
       /\ val' = [val EXCEPT ![First(ini_find(k))] = v]
       /\ UNCHANGED <<key, hash, num, size>>
    \/ /\ ini_find(k) = {}
       /\ ini_add(k, v)

(* Null when there is no such key, as for a section. *)
ini_get(k) ==
    LET found == {i \in 1 .. size : same_key(i, k)}
    IN  IF found = {} THEN Null ELSE val[First(found)]

(* variant: the last slot is forgotten *)
ini_freed_short(i) == i < num

ini_freed(i) == i <= num

(* The first num slots, used or not, are freed. *)
ini_free ==
    /\ key' = [i \in 1 .. size |-> IF ini_freed(i) THEN Empty ELSE key[i]]
    /\ val' = [i \in 1 .. size |-> IF ini_freed(i) THEN Empty ELSE val[i]]
    /\ num' = 0
    /\ UNCHANGED <<hash, size>>

ini_release ==
    /\ pc = "parsed"
    /\ pc' = "released"
    /\ ini_free
    /\ UNCHANGED <<file, pos, held, section>>

(* The file cannot be opened: ini_init releases the store at once. *)
ini_init_fails ==
    /\ pc = "parse"
    /\ pos = 0
    /\ pc' = "released"
    /\ ini_free
    /\ UNCHANGED <<file, pos, held, section>>

-----------------------------------------------------------------------------
(* The parser *)

NotEmpty(line) == line.kind # "empty"

NotBlank(text) == text # ""

(* What joined lines are: blank ones leave nothing, the first of the       *)
(* others decides; the value of a key goes on with the whole text of the   *)
(* following lines, up to a comment.                                       *)
Parts(lines) == SelectSeq(lines, NotEmpty)

value_text(parts) ==
    LET comments == {i \in DOMAIN parts : parts[i].kind = "comment"}
        kept == IF comments = {} THEN parts ELSE SubSeq(parts, 1, First(comments) - 1)
        texts == [i \in DOMAIN kept |-> IF i = 1 THEN kept[1].value ELSE kept[i].text]
    IN  SelectSeq(texts, NotBlank)

(* variant: a new section is stored but its name is not kept *)
ini_parse_line_section(name) == section

ini_section_name(name) == name

(* ini_parse_line and the switch on its result. *)
ini_parse_line(lines) ==
    LET parts == Parts(lines)
        kind == IF parts = << >> THEN "empty" ELSE parts[1].kind
    IN  \/ /\ kind = "section"
           /\ section' = ini_section_name(parts[1].name)
           /\ ini_set(<<parts[1].name>>, Null)
        \/ /\ kind = "value"
           /\ ini_set(<<section, parts[1].name>>, value_text(parts))
           /\ UNCHANGED section
        \/ /\ kind \in {"empty", "comment", "error"}
           /\ UNCHANGED <<store, section>>

(* One call of fgets. *)
ini_parse_file ==
    LET line == file[pos + 1]
    IN  /\ pc = "parse"
        /\ pos < Len(file)
        /\ pos' = pos + 1
        /\ \/ /\ line.cont
              /\ held' = Append(held, line)
              /\ UNCHANGED <<store, section>>
           \/ /\ ~ line.cont
              /\ held' = << >>
              /\ ini_parse_line(Append(held, line))
        /\ UNCHANGED <<file, pc>>

(* The end of the file: a line that waits for its continuation is lost. *)
ini_parse_end ==
    /\ pc = "parse"
    /\ pos = Len(file)
    /\ pc' = "parsed"
    /\ UNCHANGED <<store, file, pos, held, section>>

ini_over == pc = "released" /\ UNCHANGED vars

(* ini_init has allocated the first INI_MINSIZE slots; the buffer of the   *)
(* section name is not initialised.                                        *)
Init ==
    /\ size = INI_MINSIZE
    /\ num = 0
    /\ key = [i \in 1 .. INI_MINSIZE |-> Empty]
    /\ val = [i \in 1 .. INI_MINSIZE |-> Empty]
    /\ hash = [i \in 1 .. INI_MINSIZE |-> Empty]
    /\ file \in Files
    /\ pos = 0
    /\ held = << >>
    /\ section \in Garbage
    /\ pc = "parse"

Next ==
    \/ ini_parse_file
    \/ ini_parse_end
    \/ ini_release
    \/ ini_init_fails
    \/ ini_over

Spec == Init /\ [][Next]_vars

-----------------------------------------------------------------------------
(* The used slots are the first num ones, each with the hash of its key    *)
(* and no key twice: the search for a free slot never runs past the        *)
(* arrays, and ini_release and ini_print, which look at num slots, see all *)
(* of them.                                                                *)
StoreOK ==
    /\ size \in Nat /\ num \in 0 .. size
    /\ DOMAIN key = 1 .. size /\ DOMAIN val = 1 .. size /\ DOMAIN hash = 1 .. size
    /\ \A i \in 1 .. size : i <= num <=> key[i] # Empty
    /\ \A i \in 1 .. num :
          /\ hash[i] = Hash[key[i]]
          /\ \A j \in 1 .. num : key[i] = key[j] => i = j

(* Released means released: no slot keeps its strings. *)
NothingLeaks == pc = "released" => \A i \in 1 .. size : key[i] = Empty

found_values == [k \in IniKeys |-> ini_get(k)]

Map == INSTANCE IniMap WITH map <- found_values

(* Whatever the hashes collide on and however often the arrays grow, what  *)
(* ini_get finds is a map: a line of the file changes the value of no key  *)
(* but its own.                                                            *)
ImplementsMap == Map!Spec

(* Entries, seen without reading the lines one by one: an entry Begins at  *)
(* a line that is not the continuation of another, ends at the first of    *)
(* EndsAt, and is what its first line that is not blank makes it.          *)
Begins(i) == i = 1 \/ ~ file[i - 1].cont

EndsAt(i) == {j \in i .. Len(file) : ~ file[j].cont}

Entry(i) == Parts(SubSeq(file, i, First(EndsAt(i))))

Opens(i, kind) ==
    /\ Begins(i) /\ EndsAt(i) # {}
    /\ Entry(i) # << >> /\ Entry(i)[1].kind = kind

LastOf(S) == CHOOSE i \in S : \A j \in S : j <= i

Heading(i) == {h \in 1 .. i - 1 : Opens(h, "section")}

Defines(i, s, k) ==
    /\ Opens(i, "value") /\ Entry(i)[1].name = k
    /\ Heading(i) # {}
    /\ Entry(LastOf(Heading(i)))[1].name = s

(* The lines that set a key, and the text that the last of them gives it. *)
Setting(k) == {i \in 1 .. Len(file) : Defines(i, k[1], k[2])}

LastText(k) == value_text(Entry(LastOf(Setting(k))))

(* ini_findkey finds, for a key of a section, the text of the last line    *)
(* that sets it there, continuation lines included: no earlier line, no    *)
(* other section, no line that a continuation has swallowed counts.        *)
LastLineWins ==
    pc = "parsed" =>
        \A k \in {q \in IniKeys : Len(q) = 2} :
            Setting(k) # {} => ini_get(k) = LastText(k)
=============================================================================
