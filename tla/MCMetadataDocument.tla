------------------------- MODULE MCMetadataDocument -------------------------
(* Products and what is registered beside them: every kind of property,    *)
(* annotations in every place, operations whose names meet others.         *)
EXTENDS MetadataDocument

None == [x \in {} |-> {}]
Prop(kind, type, nullable, required) ==
  [kind |-> kind, type |-> type, nullable |-> nullable, required |-> required, facets |-> {}, notes |-> {},
   members |-> {}, flags |-> FALSE, many |-> FALSE, contained |-> FALSE, constraints |-> {}, fields |-> None]
Plain(nullable, required) == Prop("plain", "String", nullable, required)
Link(type) == Prop("navigation", type, "unset", FALSE)
Fields == {
  [Street |-> Plain("unset", FALSE)], [Street |-> [Plain("no", FALSE) EXCEPT !.notes = {"n"}]],
  [Street |-> Plain("yes", TRUE), Region |-> [Link("Category") EXCEPT !.many = TRUE]],
  [Region |-> [Link("Category") EXCEPT !.constraints = {"RegionID"}]]}

\* The second property of a product.
Extras ==
  {Plain(n, r) : n \in {"unset", "yes", "no"}, r \in BOOLEAN}
    \cup {[Prop("plain", t, "unset", FALSE) EXCEPT !.facets = {"MaxLength", "Precision", "DefaultValue"}] :
            t \in {"String", "Decimal", "Int32"}}
    \cup {[Plain("unset", TRUE) EXCEPT !.notes = {"n"}]}
    \cup {[Prop("enum", "Colour", "unset", TRUE) EXCEPT !.members = ms, !.flags = f] :
            ms \in {{}, {"Red"}}, f \in BOOLEAN}
    \cup {Prop("typedef", "Weight", n, FALSE) : n \in {"unset", "no"}}
    \cup {[Prop("complex", "Address", "unset", FALSE) EXCEPT !.fields = f] : f \in Fields}
Links ==
  {[Link("Category") EXCEPT !.many = b, !.contained = c] : b \in BOOLEAN, c \in BOOLEAN}
    \cup {[Link("Category") EXCEPT !.constraints = {"CategoryID"}], [Link("Category") EXCEPT !.notes = {"n"}]}

Meta(type, props) ==
  [type |-> type, base |-> "", abstract |-> FALSE, open |-> FALSE, media |-> FALSE, singleton |-> FALSE,
   hidden |-> FALSE, keys |-> {"ID"}, props |-> props, streams |-> None, notes |-> {}, setNotes |-> {}]
ID == Plain("unset", TRUE)
Products ==
  {Meta("Product", [ID |-> ID, Extra |-> x, Category |-> l]) : x \in Extras, l \in Links}
PhotoOf(meta) == [meta EXCEPT !.streams = [Photo |-> {"Extra"}]]
Categories ==
  LET c == Meta("Category", [ID |-> ID]) IN
  {c, [c EXCEPT !.singleton = TRUE, !.setNotes = {"n"}], [c EXCEPT !.hidden = TRUE, !.setNotes = {"n"}],
   [c EXCEPT !.hidden = TRUE, !.notes = {"n"}], [c EXCEPT !.media = TRUE], [c EXCEPT !.setNotes = {"n"}, !.abstract = TRUE]}

Def(bound, set, parameters) == [bound |-> bound, set |-> set, parameters |-> parameters, returns |-> "Int32"]
Functions == {None, [Top |-> <<Def(TRUE, "Products", <<>>), Def(FALSE, "", <<"x">>)>>],
              [Colour |-> <<Def(FALSE, "", <<>>)>>], [Products |-> <<Def(FALSE, "", <<>>)>>]}
Actions == {None, [Sell |-> <<Def(TRUE, "Nowhere", <<"x">>)>>], [Top |-> <<Def(FALSE, "", <<>>)>>]}

Registered(entities, functions, actions, sv, notes) ==
  [namespace |-> "NS", schemaVersion |-> sv, entities |-> entities,
   functions |-> functions, actions |-> actions, notes |-> notes]
MCModels ==
  {Registered([Products |-> p, Categories |-> c], f, a, "", {}) :
     p \in Products, c \in Categories, f \in Functions, a \in Actions}
    \cup {Registered([Products |-> p], None, None, sv, {"n"}) : p \in Products, sv \in {"", "1"}}
    \cup {Registered([Products |-> PhotoOf(p)], None, None, "", {}) : p \in Products}
    \cup {Registered([Products |-> p, Specials |-> [p EXCEPT !.base = "Thing", !.type = t], Categories |-> c], None, None, "", {}) :
            p \in Products, c \in Categories, t \in {"Product", "Special"}}
=============================================================================
