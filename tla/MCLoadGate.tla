----------------------------- MODULE MCLoadGate -----------------------------
(* Small inputs for LoadGate: images of up to six units. *)
EXTENDS LoadGate

H(n, size, q) == [name |-> n, size |-> size, v41 |-> FALSE,
                  coff |-> 0, csize |-> size, q |-> q]
V(n, size, coff, csize, q) == [name |-> n, size |-> size, v41 |-> TRUE,
                               coff |-> coff, csize |-> csize, q |-> q]
D == H("data", 0, "bad")

\* "a" and "b" both declare X, "b" and "c" both declare Y.
MCDeclares == [n \in {"a", "b", "c", "d"} |->
                  CASE n = "a" -> {"X"} [] n = "b" -> {"X", "Y"}
                    [] n = "c" -> {"Y"} [] OTHER -> {}]

Single(q) == <<H("a", 1, q)>>
Pair(q, r) == <<H("b", 2, q), D, H("a", 1, r)>>
Triple(q, r, t) == <<H("b", 1, q), H("a", 2, r), D, H("c", 1, t)>>
\* A v41 container of two entries, and the same with a dex before or after it.
Container(q, r) == <<V("c", 1, 0, 3, q), V("d", 2, 1, 3, r), D>>
Mixed(q, r, t) == <<H("a", 1, t)>> \o Container(q, r)
Followed(q, r, t) == Container(q, r) \o <<H("b", 1, t)>>
\* A container whose second entry is missing, one that claims more bytes than
\* the image has, one whose second entry names a smaller container, and one
\* nested in the bytes a first container claims.
Truncated(q) == <<V("c", 1, 0, 2, q), D>>
Overlong(q) == <<V("c", 1, 0, 4, q), V("d", 1, 1, 4, q)>>
Uneven(q) == <<V("c", 1, 0, 3, q), V("d", 1, 1, 2, q), D>>
Foreign(q, r) == <<V("c", 1, 0, 2, q), H("a", 1, r), V("d", 1, 2, 3, q)>>
Garbage == <<D, D>>
\* A container that begins inside the dex before it, whatever those bytes read as,
\* and one whose second dex ends behind where the first says the container ends.
NoStart(x) == <<H("a", 2, "bad"), x, V("c", 1, 1, 2, "good")>>
Longer(q, r) == <<V("c", 1, 0, 2, q), V("d", 2, 1, 3, q), D, H("a", 1, r)>>

AnImage(img) == [kind |-> "image", units |-> img]
NoImage(k) == [kind |-> k, units |-> <<>>]

Some == {"good", "sum", "insns", "bad"}
Few == {"good", "insns", "bad"}

AllImages ==
    {Single(q) : q \in Qualities} \cup {Garbage}
    \cup {Pair(q, r) : q, r \in Qualities}
    \cup {Triple(q, r, t) : q, r, t \in Some}
    \cup {Container(q, r) : q, r \in Qualities}
    \cup {Mixed(q, r, t) : q, r, t \in Some}
    \cup {Followed(q, r, t) : q, r, t \in Some}
    \cup {Truncated(q) : q \in Some} \cup {Overlong(q) : q \in Some}
    \cup {Uneven(q) : q \in Few} \cup {Foreign(q, r) : q, r \in Few}
    \cup {NoStart(x) : x \in {D, H("b", 1, "bad"), H("b", 2, "bad"), H("b", 2, "good")}}
    \cup {Longer(q, r) : q, r \in Few}

ImagePool ==
    {Garbage, Container("good", "good"), Container("bad", "good"),
                  Truncated("good"), Pair("good", "bad"), Mixed("good", "good", "bad")}
            \cup {Single(q) : q \in {"good", "sum", "insns", "bad", "unparsed"}}
EntryPool ==
    {NoImage("empty"), NoImage("corrupt")} \cup {AnImage(i) : i \in ImagePool}

Dex(img) == [format |-> "dex", duplicate |-> FALSE, entries |-> <<AnImage(img)>>]
Apk(es, dup) == [format |-> "zip", duplicate |-> dup, entries |-> es]
List(es) == [format |-> "images", duplicate |-> FALSE, entries |-> es]
Unknown == [format |-> "unknown", duplicate |-> FALSE, entries |-> <<>>]

SourcePool ==
    {Unknown, Apk(<<>>, FALSE), Dex(Single("good")), Dex(Single("bad")),
     Dex(Pair("good", "good")), List(<<NoImage("empty"), AnImage(Single("good"))>>),
     Apk(<<AnImage(Single("good")), AnImage(Container("good", "good"))>>, FALSE),
     Apk(<<AnImage(Single("good"))>>, TRUE), Apk(<<AnImage(Single("bad")), AnImage(Pair("good", "good"))>>, FALSE)}

MCInputs ==
    {<<Dex(img)>> : img \in {i \in AllImages : i[1].name # "data"}}
    \cup {<<Apk(<<e, f>>, dup)>> : e, f \in EntryPool, dup \in BOOLEAN}
    \cup {<<List(<<e, f>>)>> : e, f \in EntryPool \ {NoImage("corrupt")}}
    \cup {<<s, t>> : s, t \in SourcePool}

\* More dexes than there are ids: standing alone, and with a container that the
\* limit cuts, that ends before it, or that another dex shares its range with.
MCLimitInputs ==
    {<<Dex(Triple(q, "good", "good")), Dex(Triple("good", r, "good")), Dex(Pair(t, "good"))>> :
        q, r, t \in Few}
    \cup {<<Dex(Triple("good", "good", q)), Dex(Pair("good", r)), Dex(Container("good", "good"))>> :
        q, r \in Few}
    \cup {<<Dex(Triple("good", "good", "good")), Dex(Single("good")), Dex(img)>> :
        img \in {Followed("good", "good", "good"), Mixed("good", "good", "good"),
                 Foreign("good", "good"), Longer("good", "good")}}

MCAll == MCInputs \cup MCLimitInputs
=============================================================================
