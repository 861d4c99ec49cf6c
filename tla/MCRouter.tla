------------------------------ MODULE MCRouter ------------------------------
(* A catalogue with a singleton, a collection and a single navigation,     *)
(* bound and unbound operations and an overloaded function.                *)
EXTENDS Router

Nav(to, many) == [to |-> to, many |-> many]
MCHandlers == [
  Products |-> [singleton |-> FALSE, nav |-> [Category |-> Nav("Categories", FALSE)],
                structural |-> {"Name"}, complex |-> {"Address"}, streams |-> {"Photo"}],
  Categories |-> [singleton |-> FALSE, nav |-> [Items |-> Nav("Products", TRUE)],
                  structural |-> {"Title"}, complex |-> {}, streams |-> {}],
  Company |-> [singleton |-> TRUE, nav |-> [Category |-> Nav("Categories", FALSE)],
               structural |-> {"Name"}, complex |-> {}, streams |-> {}]]

Op(kind, name, set, required, optional, many) ==
  [kind |-> kind, name |-> name, bound |-> set # "", set |-> set,
   required |-> required, optional |-> optional, many |-> many]
MCOverloads == <<
  Op("function", "Top", "Products", {}, {}, TRUE),
  Op("function", "Top", "Products", {"x"}, {}, FALSE),
  Op("function", "Stats", "", {}, {}, TRUE),
  Op("action", "Sell", "Products", {"x"}, {}, FALSE),
  Op("action", "Reset", "", {}, {"x"}, FALSE)>>

Heads == {Word("Products"), Seg("", "Products", "1"), Seg("", "Categories", "1"), Word("Categories"),
          Word("Company"), Seg("", "Stats", "()"), Word("Stats"), Seg("NS", "Stats", "()"),
          Word("Reset"), Seg("NS", "Reset", Blank), Seg("Other", "Reset", Blank), Word("Nowhere")}
Parts == {Word("1"), Word("Name"), Word("Address"), Word("Photo"), Word("Category"), Word("Items"),
          Seg("", "Items", "2"), Word("2"), Seg("", "Top", "()"), Seg("", "Top", "x"), Seg("NS", "Top", "()"),
          Seg("Other", "Top", "()"), Seg("NS", "Top", Blank), Seg("NS", "Sell", Blank), Seg("Other", "Sell", Blank),
          Word("Sell"), Seg("NS", "Special", Blank), Word("$count"), Word("$ref"), Word("$value")}
Keyed == {Seg("", "Products", "1"), Seg("", "Categories", "1"), Word("Categories")}
After == {Word("1"), Word("Items"), Word("Category"), Seg("", "Top", "()"), Word("2"), Word("$value")}
Tails ==
  {<<>>} \cup {<<p>> : p \in Parts} \cup {<<p, q>> : p, q \in Parts}
MCPaths ==
  {<<>>, <<Word("$metadata")>>, <<Word("$batch")>>, <<Word("$entity")>>}
    \cup {<<h>> \o t : h \in Heads, t \in Tails}
    \cup {<<h, p, q, r>> : h \in Keyed, p \in After, q \in After, r \in Parts}
MCIds == {<<>>, <<Word("$entity")>>, <<Seg("", "Products", "1")>>, <<Word("Stats")>>, <<Word("$batch")>>}
MCParameters == SUBSET {"x"}
MCOptions == SUBSET {"$top"}
MCVersions == {NoVersion, <<3, 0>>}
=============================================================================
