---------------------------- MODULE MCEntityModel ----------------------------
(* Orders of customers in regions: keys by tag and by name, an embedded      *)
(* address, navigation in both directions and a type that is not registered. *)
EXTENDS EntityModel

Field(name, json, type) ==
  [name |-> name, json |-> json, type |-> type, pointer |-> FALSE, many |-> FALSE,
   tags |-> {}, gorm |-> {}, prefix |-> "", backs |-> ""]
Key(f) == [f EXCEPT !.tags = @ \cup {"key"}]
Link(name, json, type) == [Field(name, json, type) EXCEPT !.pointer = TRUE, !.gorm = {"foreignKey"}]
Embedded(name, json, type, prefix) == [Field(name, json, type) EXCEPT !.gorm = {"embedded"}, !.prefix = prefix]
ID == Field("ID", "id", "uint")

MCStructs == [
  Order    |-> [set |-> "Orders", base |-> "", fields |->
    <<ID, Link("Customer", "customer", "Customer"), Embedded("Address", "address", "Address", "ship_"),
      [Field("Note", "-", "string") EXCEPT !.backs = "Photo"],
      [Field("Photo", "photo", "string") EXCEPT !.tags = {"stream"}],
      [Field("Draft", "draft", "string") EXCEPT !.tags = {"-"}], Link("Draft2", "draft2", "Unregistered")>>],
  Customer |-> [set |-> "Customers", base |-> "", fields |->
    <<Key(Field("Code", "code", "string")), ID, Link("Region", "region", "Region"),
      [Link("Orders", "orders", "Order") EXCEPT !.many = TRUE],
      [Field("Version", "version", "int") EXCEPT !.tags = {"etag"}]>>],
  Region   |-> [set |-> "Regions", base |-> "", fields |->
    <<ID, Key(Field("Name", "name", "string")), Embedded("Address", "address", "Address", "seat_"),
      Link("Capital", "capital", "Region"), Field("Title", "Name", "string")>>],
  Address  |-> [set |-> "Addresses", base |-> "", fields |->
    <<Field("City", "city", "string"), Embedded("Geo", "geo", "Point", "geo_"),
      Field("Town", "City", "string")>>],
  Point    |-> [set |-> "Points", base |-> "", fields |-> <<[Field("X", "x", "int") EXCEPT !.tags = {"generate=uuid"}]>>],
  Special  |-> [set |-> "Specials", base |-> "Order", fields |->
    <<Field("Extra", "extra", "string")>>],
  Unregistered |-> [set |-> "Unregistereds", base |-> "", fields |-> <<ID>>]]

Expose(how, type, name) == [how |-> how, type |-> type, name |-> name]
MCExposures ==
  {Expose("entity", "Order", ""), Expose("entity", "Customer", ""),
   Expose("entity", "Region", ""), Expose("virtual", "Region", ""), Expose("singleton", "Region", "Home"),
   Expose("singleton", "Order", "Customer"), Expose("entity", "Point", ""), Expose("entity", "Special", "")}
MCPropertyPaths ==
  {<<"customer", "code">>, <<"customer", "region", "name">>, <<"customer", "region", "address", "city">>,
   <<"region", "address", "geo", "x">>, <<"customer", "region", "capital", "id">>, <<"orders", "id">>,
   <<"customer", "orders", "id">>, <<"region", "Name">>, <<"region", "address", "City">>,
   <<"address", "city">>, <<"capital", "capital", "address", "geo", "x">>, <<"draft2", "id">>}
=============================================================================
