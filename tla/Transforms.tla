----------------------------- MODULE Transforms -----------------------------
(***************************************************************************)
(* What the transformation wizard computes: the list of operations in the   *)
(* transformation view, the lists of sources and targets, and the sample    *)
(* event of a source.  A key or a value is the sequence of its segments;     *)
(* "a.b" is <<"a", "b">> and the empty string is <<>>.                       *)
(***************************************************************************)
EXTENDS SequencesExt

NoSample == <<>>

(* A line of a sample event: its indentation in levels and its key; brackets  *)
(* stand for themselves, and an element of an array has the key "".          *)
Open  == [depth |-> 0, key |-> "{"]
Close == [depth |-> 0, key |-> "}"]
Empty == [depth |-> 0, key |-> "{}"]
Blank == [depth |-> 0, key |-> ""]
Closers == {"}", "]"}
NoKey   == Closers \cup {"{", "{}", ""}

(* What json.MarshalIndent makes of an object: the first line after the         *)
(* bracket is a key, one level in.                                           *)
IsSample(s) ==
    \/ s = <<Empty>>
    \/ /\ s \in Seq([depth : Nat, key : STRING]) /\ Len(s) > 2
       /\ s[1] = Open /\ s[Len(s)] = Close
       /\ s[2].depth = 1 /\ s[2].key \notin NoKey
       /\ \A i \in 2 .. Len(s) - 1 : s[i].depth > 0

(* The elements of `s' at the places `D', in their order.                      *)
Chosen(s, D) ==
    [n \in 1 .. Cardinality(D) |->
        s[CHOOSE d \in D : Cardinality({e \in D : e <= d}) = n]]

Path(k, v) == [key |-> k, value |-> v]
Group(op, ps) == [operation |-> op, paths |-> ps]

Ops       == {"parse", "store", "delete", "add", "shift"}
PathType  == [key : Seq(STRING), value : Seq(STRING)]
GroupType == [operation : Ops, paths : Seq(PathType)]

Index(k, ps) == {i \in DOMAIN ps : ps[i].key = k}

(* `updateTransformations': a stored value becomes the key, a shift is         *)
(* "path:value", and an operation joins the first group of its kind.         *)
Entry(op, path, value) ==
    CASE op = "store" -> Path(value, path)
      [] op = "shift" -> Path(path \o <<":">> \o value, <<>>)
      [] OTHER        -> Path(path, value)

UpdateTransformations(ts, op, path, value) ==
    LET same == {i \in DOMAIN ts : ts[i].operation = op}
        p    == Entry(op, path, value)
    IN IF same = {}
       THEN Append(ts, Group(op, <<p>>))
       ELSE [ts EXCEPT ![Min(same)].paths = Append(@, p)]

(* `sanitize' leaves out what is incomplete and keeps the last path of a key,  *)
(* at the place of the first.                                                *)
Complete(op, p) ==
    CASE op \in {"add", "store"} -> p.key # <<>> /\ p.value # <<>>
      [] op = "shift" -> \E i \in 2 .. Len(p.key) - 1 :
                            {j \in DOMAIN p.key : p.key[j] = ":"} = {i}
      [] OTHER -> TRUE

(* Mutant: a path of a key that is there already is added to it.              *)
SanitizeKeepsDoubles(t) ==
    [t EXCEPT !.paths = Chosen(@, {i \in DOMAIN @ : Complete(t.operation, @[i])})]

Sanitize(t) ==
    LET complete == {i \in DOMAIN t.paths : Complete(t.operation, t.paths[i])}
        Same(i)  == {j \in complete : t.paths[j].key = t.paths[i].key}
    IN [t EXCEPT !.paths = Chosen([i \in complete |-> t.paths[Max(Same(i))]],
                                  {i \in complete : i = Min(Same(i))})]

Wipe == Group("delete", <<Path(<<>>, <<>>)>>)

(* `rearrange': parse and store first, then deletions - one of the empty path  *)
(* stands for all - then add and shift.                                      *)
Rearrange(ts) ==
    LET clean  == [i \in DOMAIN ts |-> Sanitize(ts[i])]
        Of(op) == Chosen(clean, {i \in DOMAIN ts : ts[i].operation = op /\ clean[i].paths # <<>>})
        wiped  == \E i \in DOMAIN ts : ts[i].operation = "delete" /\ Index(<<>>, clean[i].paths) # {}
    IN Of("parse") \o Of("store") \o (IF wiped THEN <<Wipe>> ELSE Of("delete"))
         \o Of("add") \o Of("shift")
-----------------------------------------------------------------------------
(* Objects of the manifest, as far as the wizard reads them: `role' says       *)
(* whether parseComponents takes the object for a source or a target,        *)
(* `contexts' are the entries of the context label and `data' is the spec.   *)
Label(source, target) == IF target = "" THEN <<source>> ELSE <<source, target>>

(* `transformations': a later object takes a label over.                      *)
Transformations(objects) ==
    LET Has(l) == {i \in DOMAIN objects : l \in objects[i].contexts}
    IN [l \in UNION {objects[i].contexts : i \in DOMAIN objects} |->
            [name |-> objects[Max(Has(l))].name, spec |-> objects[Max(Has(l))].data]]

ExistingTransformation(source, target, known) ==
    IF Label(source, target) \in DOMAIN known THEN known[Label(source, target)]
    ELSE [name |-> "", spec |-> <<>>]

(* `parseComponents' and the lines that Create prints: "*", then each          *)
(* component, as a header if it has event types.  Go's maps have no order;   *)
(* one of them stands for all.  The j-th type of the k-th component is at    *)
(* k * width + j of the table that the lines are chosen from.                *)
Components(objects, role) == {objects[i] : i \in {j \in DOMAIN objects : objects[j].role = role}}

Types(components) == UNION {c.types : c \in components}

Lines(components) ==
    LET cs    == SetToSeq(components)
        types == [k \in DOMAIN cs |-> SetToSeq(cs[k].types)]
        width == Cardinality(Types(components)) + 1
        cells == {p \in 1 .. width * (Len(cs) + 1) :
                    p \div width \in DOMAIN cs /\ p % width <= Len(types[p \div width])}
        table == [p \in cells |->
                    LET k == p \div width
                    IN IF p % width # 0 THEN [kind |-> "type", name |-> types[k][p % width]]
                       ELSE [kind |-> IF types[k] = <<>> THEN "component" ELSE "header",
                             name |-> cs[k].name]]
    IN <<[kind |-> "any", name |-> "*"]>> \o Chosen(table, cells)

(* `preloadRegistryData': what the registry has for each event type; one       *)
(* without a schema gets a sentence, which is not a sample.                  *)
Cache(components, registry) ==
    [t \in Types(components) |->
        IF t \in DOMAIN registry THEN registry[t] ELSE NoSample]

(* The component of the line `at'; for an event type, the nearest one above it in   *)
(* the visible part, whose first line is not looked at.                      *)
ComponentAt(lines, top, at) ==
    LET above == {i \in top + 2 .. at - 1 : lines[i].kind # "type"}
    IN IF lines[at].kind = "any" THEN ""
       ELSE IF lines[at].kind # "type" THEN lines[at].name
       ELSE IF above = {} THEN "" ELSE lines[Max(above)].name

TypeAt(lines, at) == IF lines[at].kind = "type" THEN lines[at].name ELSE ""

(* The key path of a line of a sample: the keys of the lines that it is inside  *)
(* of, and its own; a line without a key belongs to the key before it.       *)
Keyed(sample, at) == {i \in 1 .. at : sample[i].key \notin NoKey}

Around(sample, at) ==
    {i \in 1 .. at : \A j \in i + 1 .. at : sample[j].depth > sample[i].depth}

KeyPath(sample, at) ==
    LET keyed == Keyed(sample, at)
    IN IF keyed = {} THEN (IF sample[1] = Open THEN <<".">> ELSE <<>>)
       ELSE Chosen([i \in keyed |-> sample[i].key], keyed \cap Around(sample, Max(keyed)))

(* No array has elements with keys at more than one depth: between a key and the  *)
(* keys inside of it, no line is further out than the key.                     *)
Regular(sample) ==
    \A k \in DOMAIN sample : \A i \in Keyed(sample, k) :
        sample[k].key \notin NoKey /\ (\A j \in Keyed(sample, k) : j > i => sample[j].depth > sample[i].depth)
            => i \in Around(sample, k)
=============================================================================
