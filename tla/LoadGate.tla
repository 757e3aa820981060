------------------------------ MODULE LoadGate ------------------------------
(* The load boundary of a session (native/core_ext/dexkit_ext.cpp): every    *)
(* source is split into logical dexes, each dex is judged, accepted dexes    *)
(* get consecutive dex_ids, and only they are handed to the core, which      *)
(* splits the images again and builds one DexItem per dex in a thread pool.  *)
(*                                                                           *)
(* An image is a sequence of units of one header size each, read as headers; *)
(* a unit that is no header has the unusable file_size 0. Offsets count      *)
(* units from 0. What VerifyDex makes of a dex apart from its container      *)
(* fields is its header's quality "q".                                       *)
EXTENDS Integers, Sequences, FiniteSets

CONSTANTS Inputs,       \* the source lists a session may be given
          Declares,     \* class names the dex with header name h defines
          MaxDexes      \* kMaxLoadedDexes

Qualities == {"good",       \* accepted, and ART opens it
              "sum",        \* accepted, header checksum does not match
              "insns",      \* only the strict verify rejects (VerifyInsns)
              "unsorted",   \* strict rejects, lenient accepts with a deviation
              "bad",        \* rejected in both modes
              "unparsed"}   \* accepted, but the DexItem constructor throws

\* A unit read as a header: file_size, and for a v41 dex header_offset and
\* container_size.
Header == [name : STRING, size : Nat, v41 : BOOLEAN, coff : Nat, csize : Nat, q : Qualities]

\* A zip entry or list element is an image, empty, or cannot be decompressed.
EntryKinds == {"image", "empty", "corrupt"}
Source == [format : {"dex", "zip", "images", "unknown"}, duplicate : BOOLEAN,
           entries : Seq([kind : EntryKinds, units : Seq(Header)])]

ASSUME MaxDexesAssumption == MaxDexes \in Nat \ {0}
ASSUME InputsAssumption == Inputs \subseteq Seq(Source)

VARIABLES mode,         \* "isolated" | "runtime"
          strict,       \* check_insns: the session was not opened lenient
          inputs,       \* the session's sources, in load order
          phase,        \* where the constructor is
          src, ent,     \* the source and the entry it is at
          broken,       \* ArtSequence::broken of the current source
          report,       \* verify_status_
          next_dex_id,
          images,       \* valid_dexes, with their image_origin_
          dex_items,    \* core: one slot per logical dex, filled by the pool
          declared      \* core: class_declare_dex_map

walk == <<src, ent, broken, report, next_dex_id, images>>
core == <<dex_items, declared>>
config == <<mode, strict, inputs>>
vars == <<config, phase, walk, core>>

-----------------------------------------------------------------------------
(* Splitting an image. *)

Unit(img, off) == img[off + 1]

Slice(h, off) ==
    LET begin == IF h.coff <= off THEN off - h.coff ELSE off
    IN  [offset |-> off, size |-> h.size, header |-> h,
         self_contained |-> ~h.v41,
         last_entry |-> ~h.v41 \/ h.coff + h.size = h.csize,
         container_begin |-> begin,
         container_end |-> IF h.v41 THEN begin + h.csize ELSE off + h.size,
         ok |-> FALSE, art_own |-> FALSE, art_open |-> FALSE]

\* A header whose file_size is usable at this offset of an image of n units.
Fits(img, off) ==
    /\ off < Len(img)
    /\ Unit(img, off).size >= 1
    /\ off + Unit(img, off).size <= Len(img)

LogicalDexSlices(img) ==
    LET split[off \in 0..Len(img)] ==
            IF Fits(img, off)
            THEN <<Slice(Unit(img, off), off)>> \o split[off + Unit(img, off).size]
            ELSE <<>>
    IN  split[0]

\* The core's own split (ParseLogicalDexOffsets), applied to what it is given.
ParseLogicalDexOffsets(img) ==
    LET offs[off \in 0..Len(img)] ==
            IF Fits(img, off) THEN <<off>> \o offs[off + Unit(img, off).size] ELSE <<>>
    IN  offs[0]

-----------------------------------------------------------------------------
(* The verdict of one dex, on its own. *)

\* ComputeDataRange and the container part of CheckHeader.
ContainerConsistent(img, s) ==
    s.header.v41 =>
        /\ s.header.coff <= s.offset
        /\ s.header.csize <= Len(img) - (s.offset - s.header.coff)
        /\ s.header.coff < s.header.csize
        /\ s.size <= s.header.csize - s.header.coff

VerifyDex(img, s, check_insns) ==
    /\ ContainerConsistent(img, s)
    /\ s.header.q \in {"good", "sum", "unparsed"}
                      \cup (IF check_insns THEN {} ELSE {"insns", "unsorted"})

\* ART's open of this dex: the lenient verdict, no deviation, right checksum.
ArtOwn(img, s) == VerifyDex(img, s, FALSE) /\ s.header.q \notin {"unsorted", "sum"}

ClassifyImageSlices(img, check_insns) ==
    [i \in DOMAIN LogicalDexSlices(img) |->
        LET s == LogicalDexSlices(img)[i]
        IN  [s EXCEPT !.ok = VerifyDex(img, s, check_insns), !.art_own = ArtOwn(img, s)]]

-----------------------------------------------------------------------------
(* The rules that need more than one dex. *)

\* ClassifySourceImage's loop: [broken, ended] after the first i slices.
ArtLoop(slices, brk) ==
    LET st[i \in 0..Len(slices)] ==
            IF i = 0 THEN [broken |-> brk, ended |-> FALSE]
            ELSE LET ended == st[i-1].ended \/ (i > 1 /\ slices[i-1].last_entry)
                 IN  [ended |-> ended,
                      broken |-> st[i-1].broken \/ (~ended /\ ~slices[i].art_own)]
    IN  st

\* ART would read one more container entry than the image yields.
MissingEntry(slices, brk) ==
    LET end == ArtLoop(slices, brk)[Len(slices)]
    IN  slices # <<>> /\ ~end.broken /\ ~end.ended /\ ~slices[Len(slices)].last_entry

BrokenAfter(slices, brk) ==
    slices = <<>> \/ ArtLoop(slices, brk)[Len(slices)].broken \/ MissingEntry(slices, brk)

\* Mutant: runtime mode stops at a failure but not at the end of the image.
RuntimeReadsOn(slices, brk, runtime) ==
    [i \in DOMAIN slices |->
        LET st == ArtLoop(slices, brk)
            own == ~st[i-1].broken /\ slices[i].art_own
        IN  [slices[i] EXCEPT !.art_open = own /\ ~st[i].ended, !.ok = @ /\ (runtime => own)]]
ArtVerdicts(slices, brk, runtime) ==
    [i \in DOMAIN slices |->
        LET st == ArtLoop(slices, brk)
            open == ~st[i-1].broken /\ ~st[i].ended /\ slices[i].art_own
        IN  [slices[i] EXCEPT !.art_open = open, !.ok = @ /\ (runtime => open)]]

\* The container of these members can be copied out: it fits the image, all its
\* dexes are accepted and no other dex starts in its range.
ContainerWhole(slices, n, members) ==
    LET first == slices[CHOOSE i \in members : \A j \in members : i <= j]
        inside == {i \in DOMAIN slices : /\ first.container_begin <= slices[i].offset
                                         /\ slices[i].offset < first.container_end}
    IN  /\ first.container_end <= n
        /\ \A i \in members : slices[i].ok
        /\ inside = members

\* Mutant: a container dex is kept although a sibling was rejected.
NoSiblingRule(slices, n) == slices
\* Mutant: any rejection in the image takes every container dex with it.
AnyRejectionRule(slices, n) ==
    IF \A i \in DOMAIN slices : slices[i].ok THEN slices
    ELSE [i \in DOMAIN slices |-> [slices[i] EXCEPT !.ok = @ /\ slices[i].self_contained]]
\* A v41 container survives a partially rejected image only whole.
SiblingRule(slices, n) ==
    LET Members(i) == {j \in DOMAIN slices :
                          /\ ~slices[j].self_contained
                          /\ slices[j].container_begin = slices[i].container_begin}
        bad == {i \in DOMAIN slices : /\ ~slices[i].self_contained
                                      /\ ~ContainerWhole(slices, n, Members(i))}
    IN  IF \A i \in DOMAIN slices : slices[i].ok THEN slices
        ELSE [i \in DOMAIN slices |-> [slices[i] EXCEPT !.ok = @ /\ i \notin bad]]

ClassifySourceImage(img, check_insns, brk, runtime) ==
    SiblingRule(ArtVerdicts(ClassifyImageSlices(img, check_insns), brk, runtime), Len(img))

-----------------------------------------------------------------------------
(* Verdict rows and what the loader keeps. *)

Row(off, id, valid, open) ==
    [src |-> src, ent |-> ent, off |-> off, dex_id |-> id, valid |-> valid, art_open |-> open]
\* A row about something that is not a logical dex.
RejectRow == Row(-1, -1, FALSE, FALSE)

\* Mutant: no limit.
UnlimitedIds(slices, first) ==
    [i \in DOMAIN slices |->
        IF slices[i].ok
        THEN first + Cardinality({j \in 1..(i-1) : slices[j].ok}) ELSE -1]
\* Ids are handed out in order; past the limit an accepted slice is refused.
AssignIds(slices, first) ==
    [i \in DOMAIN slices |->
        LET id == first + Cardinality({j \in 1..(i-1) : slices[j].ok})
        IN  IF slices[i].ok /\ id < MaxDexes THEN id ELSE -1]

\* EmitSliceVerdicts' downgrade: a slice without an id is no longer ok.
Downgrade(slices, ids) == [i \in DOMAIN slices |-> [slices[i] EXCEPT !.ok = ids[i] # -1]]

EmitSliceVerdicts(slices, ids) ==
    IF slices = <<>> THEN <<RejectRow>>
    ELSE [i \in DOMAIN slices |->
             Row(slices[i].offset, ids[i], ids[i] # -1, slices[i].art_open)]

Image(img, from, size) ==
    [src |-> src, ent |-> ent, base_offset |-> from,
     units |-> SubSeq(img, from + 1, from + size)]

\* The sink: an image with only accepted dexes is kept whole; otherwise each
\* survivor is copied out, a v41 dex together with its container, once.
KeptImages(img, slices) ==
    LET copied == {i \in DOMAIN slices :
                      /\ slices[i].ok
                      /\ slices[i].self_contained \/
                         ~ \E j \in 1..(i-1) :
                              /\ slices[j].ok /\ ~slices[j].self_contained
                              /\ slices[j].container_begin = slices[i].container_begin}
        Copy(s) == IF s.self_contained THEN Image(img, s.offset, s.size)
                   ELSE Image(img, s.container_begin, s.container_end - s.container_begin)
    IN  IF \A i \in DOMAIN slices : slices[i].ok
        THEN IF slices = <<>> THEN <<>> ELSE <<Image(img, 0, Len(img))>>
        ELSE [k \in 1..Cardinality(copied) |->
                 Copy(slices[CHOOSE i \in copied :
                                 Cardinality({j \in copied : j <= i}) = k])]

-----------------------------------------------------------------------------
(* The constructor. *)

Init ==
    /\ mode \in {"isolated", "runtime"}
    /\ strict \in BOOLEAN
    /\ inputs \in Inputs
    /\ phase = "source"
    /\ src = 1 /\ ent = 0
    /\ broken = FALSE
    /\ report = <<>>
    /\ next_dex_id = 0
    /\ images = <<>>
    /\ dex_items = <<>>
    /\ declared = <<>>

\* The probe of the next source: nothing recognisable, or no classes*.dex, is
\* one row; a zip with a duplicate entry name is one ART refuses to open.
BeginSource ==
    /\ phase = "source"
    /\ src <= Len(inputs)
    /\ LET s == inputs[src]
           nothing == s.format = "unknown" \/ (s.format = "zip" /\ s.entries = <<>>)
       IN  /\ broken' = (s.format = "zip" /\ s.duplicate)
           /\ IF nothing
              THEN /\ report' = Append(report, RejectRow)
                   /\ src' = src + 1
                   /\ UNCHANGED <<phase, ent>>
              ELSE /\ phase' = "entry"
                   /\ ent' = 1
                   /\ UNCHANGED <<report, src>>
    /\ UNCHANGED <<config, next_dex_id, images, core>>

Entry == inputs[src].entries[ent]

\* An empty or undecompressable entry is a row and ends ART's sequence.
RejectEntry ==
    /\ phase = "entry" /\ ent <= Len(inputs[src].entries)
    /\ Entry.kind # "image"
    /\ report' = Append(report, RejectRow)
    /\ broken' = TRUE
    /\ ent' = ent + 1
    /\ UNCHANGED <<config, phase, src, next_dex_id, images, core>>

Slices == ClassifySourceImage(Entry.units, strict, broken, mode = "runtime")
Ids == AssignIds(Slices, next_dex_id)

OneImage ==
    /\ phase = "entry" /\ ent <= Len(inputs[src].entries)
    /\ Entry.kind = "image"
    /\ report' = report \o EmitSliceVerdicts(Slices, Ids)
                        \o (IF MissingEntry(ClassifyImageSlices(Entry.units, strict), broken)
                            THEN <<RejectRow>> ELSE <<>>)
    /\ next_dex_id' = next_dex_id + Cardinality({i \in DOMAIN Ids : Ids[i] # -1})
    /\ images' = images \o KeptImages(Entry.units, Downgrade(Slices, Ids))
    /\ broken' = (broken \/ BrokenAfter(ClassifyImageSlices(Entry.units, strict), broken))
    /\ ent' = ent + 1
    /\ UNCHANGED <<config, phase, src, core>>

\* CopySlice cannot allocate: the rows are out, so the load is given up.
SalvageOutOfMemory ==
    /\ phase = "entry" /\ ent <= Len(inputs[src].entries)
    /\ Entry.kind = "image"
    /\ LET kept == Downgrade(Slices, Ids)
       IN  /\ \E i \in DOMAIN kept : kept[i].ok
           /\ \E i \in DOMAIN kept : ~kept[i].ok
    /\ phase' = "refused"
    /\ UNCHANGED <<config, walk, core>>

EndSource ==
    /\ phase = "entry" /\ ent > Len(inputs[src].entries)
    /\ phase' = "source"
    /\ src' = src + 1
    /\ ent' = 0
    /\ UNCHANGED <<config, broken, report, next_dex_id, images, core>>

\* Nothing accepted: the constructor throws the collected failures.
NothingToLoad ==
    /\ phase = "source" /\ src > Len(inputs)
    /\ next_dex_id = 0
    /\ phase' = "refused"
    /\ UNCHANGED <<config, walk, core>>

\* AddImage: every image is split again, one empty slot per logical dex.
CoreSplit(imgs) ==
    LET of[k \in 0..Len(imgs)] ==
            IF k = 0 THEN <<>>
            ELSE LET offs == ParseLogicalDexOffsets(imgs[k].units)
                 IN  of[k-1] \o [i \in DOMAIN offs |->
                        [image |-> k, off |-> offs[i], state |-> "queued"]]
    IN  of[Len(imgs)]

AddImage ==
    /\ phase = "source" /\ src > Len(inputs)
    /\ next_dex_id > 0
    /\ dex_items' = CoreSplit(images)
    /\ phase' = "build"
    /\ UNCHANGED <<config, walk, declared>>

\* The header a DexItem is built on, and whether its constructor accepts it; what
\* it makes of a dex that verifies in neither mode is open.
ItemHeader(it) == Unit(images[it.image].units, it.off)
Parses(it) ==
    LET h == ItemHeader(it)
    IN  /\ h.q # "unparsed"
        /\ h.v41 => h.csize - h.coff <= Len(images[it.image].units) - it.off

\* Mutant: upstream's unconditional overwrite.
PutDeclaredAlways(i, c) == i - 1
\* PutDeclaredClass: the lowest dex_id keeps the name (slot i is dex_id i - 1).
PutDeclaredClass(i, c) ==
    IF c \in DOMAIN declared /\ declared[c] < i - 1 THEN declared[c] ELSE i - 1

\* One pool task, in any order: build the item, then declare its classes. A
\* constructor that throws leaves the slot empty and declares nothing.
BuildItem(i) ==
    /\ phase = "build"
    /\ dex_items[i].state = "queued"
    /\ \/ /\ Parses(dex_items[i])
          /\ LET new == Declares[ItemHeader(dex_items[i]).name]
             IN  /\ dex_items' = [dex_items EXCEPT ![i].state = "built"]
                 /\ declared' = [c \in DOMAIN declared \cup new |->
                                    IF c \in new THEN PutDeclaredClass(i, c) ELSE declared[c]]
       \/ /\ ~Parses(dex_items[i]) \/ ItemHeader(dex_items[i]).q = "bad"
          /\ dex_items' = [dex_items EXCEPT ![i].state = "null"]
          /\ UNCHANGED declared
    /\ UNCHANGED <<config, phase, walk>>

\* The pool cannot be created: AddImage throws.
PoolFails ==
    /\ phase = "build"
    /\ \A i \in DOMAIN dex_items : dex_items[i].state = "queued"
    /\ phase' = "refused"
    /\ UNCHANGED <<config, walk, core>>

\* Mutant: no assertion.
NoAssertion ==
    /\ phase = "build"
    /\ \A i \in DOMAIN dex_items : dex_items[i].state # "queued"
    /\ phase' = "ready"
    /\ UNCHANGED <<config, walk, core>>
\* The pool is joined; the core must hold as many dexes as were accepted, all built.
AssertLoadedDexesWereVerified ==
    /\ phase = "build"
    /\ \A i \in DOMAIN dex_items : dex_items[i].state # "queued"
    /\ phase' = IF /\ Len(dex_items) <= MaxDexes
                   /\ Len(dex_items) = next_dex_id
                   /\ \A i \in DOMAIN dex_items : dex_items[i].state = "built"
                THEN "ready" ELSE "refused"
    /\ UNCHANGED <<config, walk, core>>

Next ==
    \/ BeginSource \/ RejectEntry \/ OneImage \/ SalvageOutOfMemory \/ EndSource
    \/ NothingToLoad \/ AddImage
    \/ \E i \in 1..Len(dex_items) : BuildItem(i)
    \/ PoolFails \/ AssertLoadedDexesWereVerified

Spec == Init /\ [][Next]_vars

-----------------------------------------------------------------------------
(* What the session reports and what the core holds. *)

ValidRows == {i \in DOMAIN report : report[i].valid}
Place(r) == <<r.src, r.ent, r.off>>
AcceptedPlaces == {Place(report[i]) : i \in ValidRows}
\* GetDexOrigin.
DexOrigin(it) == <<images[it.image].src, images[it.image].ent,
                   images[it.image].base_offset + it.off>>
Loaded == {DexOrigin(dex_items[i]) : i \in DOMAIN dex_items}
\* What the core finds in image k, and the places this image has the bytes of.
SplitOf(k) ==
    LET offs == ParseLogicalDexOffsets(images[k].units)
    IN  {<<images[k].src, images[k].ent, images[k].base_offset + offs[d]>> : d \in DOMAIN offs}
ImageEnd(k) == images[k].base_offset + Len(images[k].units)
Covers(k, p) ==
    /\ p[1] = images[k].src /\ p[2] = images[k].ent
    /\ images[k].base_offset <= p[3] /\ p[3] < ImageEnd(k)
\* GetLoadStatus().matches_art.
MatchesArt == \A i \in DOMAIN report : report[i].valid = report[i].art_open

(* Reference: what ART's open of a source yields, stated over the whole      *)
(* source instead of as a walk with flags.                                   *)
SlicesOf(s, e) == ClassifyImageSlices(inputs[s].entries[e].units, strict)
Opens(s, e, i) == ArtOwn(inputs[s].entries[e].units, SlicesOf(s, e)[i])
Reads(s, e) == {i \in DOMAIN SlicesOf(s, e) :
                   \A j \in 1..(i-1) : ~SlicesOf(s, e)[j].last_entry}
EntryFails(s, e) ==
    \/ inputs[s].entries[e].kind # "image"
    \/ SlicesOf(s, e) = <<>>
    \/ \E i \in Reads(s, e) : ~Opens(s, e, i)
    \/ \A i \in DOMAIN SlicesOf(s, e) : ~SlicesOf(s, e)[i].last_entry
ArtOpens(s, e, i) ==
    /\ ~(inputs[s].format = "zip" /\ inputs[s].duplicate)
    /\ \A f \in 1..(e-1) : ~EntryFails(s, f)
    /\ i \in Reads(s, e)
    /\ \A j \in 1..i : Opens(s, e, j)
HasImages(s) == inputs[s].format # "unknown"
ArtSet ==
    UNION {UNION {{<<s, e, SlicesOf(s, e)[i].offset>> :
                      i \in {j \in DOMAIN SlicesOf(s, e) : ArtOpens(s, e, j)}}
                  : e \in {f \in DOMAIN inputs[s].entries :
                               inputs[s].entries[f].kind = "image"}}
           : s \in {t \in DOMAIN inputs : HasImages(t)}}

-----------------------------------------------------------------------------
(* Properties. *)

\* Type invariant of the walk and of the core's slots.
TypeOK ==
    /\ phase \in {"source", "entry", "build", "ready", "refused"}
    /\ src \in 1..(Len(inputs) + 1) /\ ent \in Nat
    /\ broken \in BOOLEAN
    /\ next_dex_id \in 0..MaxDexes
    /\ \A i \in DOMAIN report : /\ report[i].dex_id \in -1..(MaxDexes - 1)
                                /\ report[i].valid = (report[i].dex_id # -1)
                                /\ report[i].art_open \in BOOLEAN
    /\ \A i \in DOMAIN dex_items : dex_items[i].state \in {"queued", "built", "null"}

\* CollectInput says of a salvaged container: "the sibling rule guaranteed every
\* dex in that range is accepted and it fits", so "the core splits the copy into
\* exactly those dexes". The rule does guarantee that range, and that no dex is
\* copied twice, until the ids run out.
RangesAccepted ==
    /\ \A k \in DOMAIN images : \A i \in DOMAIN SlicesOf(images[k].src, images[k].ent) :
          LET p == <<images[k].src, images[k].ent,
                     SlicesOf(images[k].src, images[k].ent)[i].offset>>
          IN  Covers(k, p) => p \in AcceptedPlaces
CoveredOnce ==
    \A p \in AcceptedPlaces :
        \E k \in DOMAIN images : Covers(k, p) /\ \A m \in DOMAIN images : Covers(m, p) => m = k

\* The conclusion does not follow, though: the core splits a copy from its first
\* byte, and neither the gate nor the sibling rule asks whether a v41 container
\* begins with a dex or whether its dexes end where the first of them says it ends.
\* A copy splits into the accepted dexes it covers exactly when it is closed.
Closed(k) ==
    LET s == images[k].src
        e == images[k].ent
    IN  /\ \E i \in DOMAIN SlicesOf(s, e) : SlicesOf(s, e)[i].offset = images[k].base_offset
        /\ \A i \in DOMAIN SlicesOf(s, e) :
              LET h == SlicesOf(s, e)[i]
              IN  Covers(k, <<s, e, h.offset>>) =>
                    (<<s, e, h.offset>> \in AcceptedPlaces <=> h.offset + h.size <= ImageEnd(k))
SplitExact(k) == SplitOf(k) = {p \in AcceptedPlaces : Covers(k, p)}
AllClosed == CoveredOnce /\ \A k \in DOMAIN images : Closed(k)

\* CollectInput: what is handed to the core, whole images and copies alike, splits
\* into exactly the accepted dexes when every image is closed.
SalvageExact ==
    phase = "build" =>
        /\ next_dex_id < MaxDexes => RangesAccepted /\ CoveredOnce
        /\ \A k \in DOMAIN images : SplitExact(k) <=> Closed(k)
        /\ AllClosed => Len(dex_items) = Cardinality(ValidRows) /\ Loaded = AcceptedPlaces

\* A session that opens has as many dexes as were accepted, all of them built
\* (AssertLoadedDexesWereVerified, which compares numbers), and where the images
\* are closed they are the accepted ones: the row with dex_id d describes the d-th
\* dex of the core, built from the very place (source, entry, offset) the row names.
LoadedIsAccepted ==
    phase = "ready" =>
        /\ Cardinality(ValidRows) = Len(dex_items)
        /\ \A i \in DOMAIN dex_items : dex_items[i].state = "built"
        /\ AllClosed => \A i \in ValidRows :
                            DexOrigin(dex_items[report[i].dex_id + 1]) = Place(report[i])

\* Class lookup is first-wins by load order, whatever order the pool built the
\* items in: a name belongs to the lowest dex_id that declares it.
FirstWins ==
    phase = "ready" =>
        \A i \in DOMAIN dex_items : \A c \in Declares[ItemHeader(dex_items[i]).name] :
            /\ c \in DOMAIN declared
            /\ declared[c] <= i - 1
            /\ c \in Declares[ItemHeader(dex_items[declared[c] + 1]).name]

\* The session tells the truth about ART. art_open of every row is what ART's
\* open of the whole source would yield (nothing after the first dex it cannot
\* open, nothing behind a dex that ends its image, whichever entry or image the
\* failure was in); runtime mode, "the device's view", accepts nothing else; and
\* load_status().matches_art holds exactly when the accepted dexes are that very set.
ArtViewExact ==
    /\ \A i \in DOMAIN report : report[i].art_open <=> Place(report[i]) \in ArtSet
    /\ phase = "ready" => /\ mode = "runtime" => AcceptedPlaces \subseteq ArtSet
                          /\ MatchesArt <=> AcceptedPlaces = ArtSet

\* Isolated mode: "every dex that verifies loads". A dex is refused only when
\* it fails on its own, when its own v41 container is not whole, or past the
\* id limit; a rejected dex elsewhere in the image costs it nothing.
IsolatedKeepsSurvivors ==
    phase = "ready" /\ mode = "isolated" /\ next_dex_id < MaxDexes =>
        \A s \in {t \in DOMAIN inputs : HasImages(t)} :
        \A e \in {f \in DOMAIN inputs[s].entries : inputs[s].entries[f].kind = "image"} :
        LET sl == SlicesOf(s, e)
            Siblings(i) == {j \in DOMAIN sl :
                               /\ ~sl[j].self_contained
                               /\ sl[j].container_begin = sl[i].container_begin}
        IN  \A i \in DOMAIN sl :
              /\ sl[i].ok
              /\ \/ sl[i].self_contained
                 \/ ContainerWhole(sl, Len(inputs[s].entries[e].units), Siblings(i))
              => <<s, e, sl[i].offset>> \in AcceptedPlaces

\* What an opened session holds (AddImage, PutDeclaredClass, the report): of closed
\* images the accepted dexes under their ids and within the id limit, and a class
\* map that does not depend on the order in which the pool built them.
SessionExact == TypeOK /\ LoadedIsAccepted /\ FirstWins

\* What CollectInput and the sibling rule make of an image with a bad dex: which
\* dexes the core gets, and that no good one is rejected with the bad.
SalvageSound == SalvageExact /\ IsolatedKeepsSurvivors
=============================================================================
