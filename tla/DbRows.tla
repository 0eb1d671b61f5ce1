-------------------------------- MODULE DbRows --------------------------------
(***************************************************************************)
(* What the database helpers of the old server make of a result, of a set  *)
(* and of an order (db.cpp). Names and texts are sequences of letters; a   *)
(* cell is its text, and what it stands for if it is read as JSON.         *)
(***************************************************************************)
EXTENDS Naturals, Sequences, FiniteSets, Functions, SequencesExt

Null == <<"null">>
NoGroup == 0

(* Sets: an empty item of the text is none. *)
Split(text, sep) ==
    LET cuts == <<0>> \o SetToSortSeq({i \in DOMAIN text : text[i] = sep}, <) \o <<Len(text) + 1>>
    IN  [i \in 1..(Len(cuts) - 1) |-> SubSeq(text, cuts[i] + 1, cuts[i + 1] - 1)]
ArrayFromSet(text) == SelectSeq(Split(text, ","), LAMBDA item : item # <<>>)
FlagsToDB(flags) == FlattenSeq([i \in DOMAIN flags |-> (IF i = 1 THEN <<>> ELSE <<",">>) \o flags[i]])

(* The columns of a result: all shown as their types say, or none before   *)
(* setFormat; a group is the length of the prefix without its last letter. *)
FormatOf(type) == IF type \in {"integer", "datetime", "floatnum", "set"} THEN type ELSE "string"
Described(columns, hideAll) ==
    [i \in DOMAIN columns |->
        [name |-> columns[i].name, group |-> NoGroup,
         format |-> IF hideAll THEN "skip" ELSE FormatOf(columns[i].type)]]
SetFormat(desc, name, format) ==
    [i \in DOMAIN desc |-> IF desc[i].name = name THEN [desc[i] EXCEPT !.format = format] ELSE desc[i]]
SetGroup(desc, prefix) ==
    [i \in DOMAIN desc |->
        IF IsPrefix(prefix, desc[i].name) THEN [desc[i] EXCEPT !.group = Len(prefix) - 1] ELSE desc[i]]
Header(desc) == [i \in DOMAIN desc |-> desc[i].name]

(* A binary cell is encoded, and the code of a JSON cell runs after that:  *)
(* it is read as JSON and the encoded text is lost.                        *)
Encoded(text) == <<"base64">> \o text
Value(format, cell) ==
    IF cell.text = Null THEN Null
    ELSE IF format \in {"binary", "jsonstr"}
    THEN IF cell.text = <<>> THEN Null ELSE cell.json
    ELSE IF format = "set" THEN ArrayFromSet(cell.text)
    ELSE cell.text

GroupName(column) == SubSeq(column.name, 1, column.group)
ItemName(column) == SubSeq(column.name, column.group + 2, Len(column.name))
Shown(desc) == SelectSeq([i \in DOMAIN desc |-> i], LAMBDA i : desc[i].format # "skip")

(* A row is an object, in which a group is an object of its own, or an     *)
(* array, for which no groups are set.                                     *)
Added(object, name, value) == [n \in DOMAIN object \cup {name} |-> IF n = name THEN value ELSE object[n]]
RowObject(desc, cells) ==
    FoldLeft(LAMBDA obj, i :
                 LET value == Value(desc[i].format, cells[i])
                     group == GroupName(desc[i])
                 IN  IF desc[i].group = NoGroup THEN Added(obj, desc[i].name, value)
                     ELSE Added(obj, group, Added(IF group \in DOMAIN obj THEN obj[group] ELSE <<>>,
                                                  ItemName(desc[i]), value)),
             <<>>, Shown(desc))
RowArray(desc, cells) == [k \in DOMAIN Shown(desc) |-> Value(desc[Shown(desc)[k]].format, cells[Shown(desc)[k]])]

(* Orders of fields that are names: for others, as one that is empty or    *)
(* only a ^, the order is refused. A field that is not allowed is left     *)
(* out, its comma is not.                                                  *)
Descends(field) == field[1] = "^"
Plain(field) == IF Descends(field) THEN Tail(field) ELSE field
Column(name, allowed) ==
    LET i == SelectInSeq(allowed, LAMBDA a : a.name = name)
    IN  IF i = 0 THEN <<>> ELSE allowed[i].column
OrderItem(field, allowed) ==
    IF Column(Plain(field), allowed) = <<>> THEN <<>>
    ELSE <<Column(Plain(field), allowed), IF Descends(field) THEN <<"DESC">> ELSE <<"ASC">>>>
Order(fields, allowed) ==
    FlattenSeq([i \in DOMAIN fields |-> (IF i = 1 THEN <<>> ELSE <<<<",">>>>) \o OrderItem(fields[i], allowed)])

-----------------------------------------------------------------------------
(* What the format of a column asks for.                                   *)
Wanted(format, cell) ==
    IF cell.text = Null THEN Null
    ELSE IF format = "binary" THEN Encoded(cell.text)
    ELSE IF format = "jsonstr" THEN IF cell.text = <<>> THEN Null ELSE cell.json
    ELSE IF format = "set" THEN ArrayFromSet(cell.text)
    ELSE cell.text

(* Known defects. The case of binary cells has no break: what they hold is *)
(* read as JSON (db.cpp:249-250). The header counts the columns left out   *)
(* of the rows. The comma of a field that is not allowed stays (399).      *)
BinaryAsJson(format) == format = "binary"
HeaderOfSkipped(desc) == \E i \in DOMAIN desc : desc[i].format = "skip"
CommaLeft(fields, allowed) ==
    Len(fields) > 1 /\ \E i \in DOMAIN fields : Column(Plain(fields[i]), allowed) = <<>>

(* A set that is written comes back as it was, but for empty flags.        *)
FlagsKept(flags) == ArrayFromSet(FlagsToDB(flags)) = SelectSeq(flags, LAMBDA f : f # <<>>)

(* Every column that is shown is in the row, in its group's object if it   *)
(* has one, by a name that makes up the column's, as its format asks; and  *)
(* nothing else is. The header names the elements of an array. All this    *)
(* but for the defects named.                                              *)
RowRight(desc, cells) ==
    LET row == RowObject(desc, cells)
        array == RowArray(desc, cells)
        shown == {i \in DOMAIN desc : desc[i].format # "skip"}
        grouped == {i \in shown : desc[i].group # NoGroup}
        right(value, i) == value = Wanted(desc[i].format, cells[i]) \/ BinaryAsJson(desc[i].format)
    IN  /\ \A i \in grouped :
             GroupName(desc[i]) \o <<desc[i].name[desc[i].group + 1]>> \o ItemName(desc[i]) = desc[i].name
        /\ \A i \in shown \ grouped : right(row[desc[i].name], i)
        /\ \A i \in grouped : right(row[GroupName(desc[i])][ItemName(desc[i])], i)
        /\ DOMAIN row = {desc[i].name : i \in shown \ grouped} \cup {GroupName(desc[i]) : i \in grouped}
        /\ \A i \in grouped :
             DOMAIN row[GroupName(desc[i])] =
                 {ItemName(desc[j]) : j \in {k \in grouped : GroupName(desc[k]) = GroupName(desc[i])}}
        /\ \/ HeaderOfSkipped(desc)
           \/ Len(Header(desc)) = Len(array) /\ \A i \in shown : Header(desc)[i] = desc[i].name /\ right(array[i], i)

(* An order is a list with commas between its items, one for each field    *)
(* that is allowed, but for the defect named.                              *)
OrderRight(fields, allowed) ==
    LET order == Order(fields, allowed)
        known == SelectSeq(fields, LAMBDA f : Column(Plain(f), allowed) # <<>>)
        items == SelectSeq(order, LAMBDA t : t # <<",">>)
        list == /\ Len(order) % 3 # 0 \/ order = <<>>
                /\ \A i \in DOMAIN order : order[i] = <<",">> <=> i % 3 = 0
    IN  Len(items) = 2 * Len(known) /\ (list \/ CommaLeft(fields, allowed))
=============================================================================
