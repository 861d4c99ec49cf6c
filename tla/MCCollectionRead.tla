-------------------------- MODULE MCCollectionRead --------------------------
(* Instances of CollectionRead for TLC.                                    *)
EXTENDS CollectionRead

MCKeySets == {{<<1>>, <<2>>, <<3>>}, {<<1, 1>>, <<1, 2>>}, {<<5>>, <<6>>}}
MCMatching == {<<1>>, <<3>>, <<1, 2>>, <<6>>}

First == [orderby |-> "none", shape |-> "struct", restrict |-> "none", top |-> None,
          skip |-> None, token |-> NoToken, count |-> FALSE, maxpage |-> None,
          entityTop |-> None, serviceTop |-> None]

MCRequests ==
  {[First EXCEPT !.orderby = b, !.shape = s, !.top = 1] :
     b \in {"none", "asc"}, s \in Shapes}
  \cup {[First EXCEPT !.orderby = "desc", !.restrict = r, !.count = TRUE, !.maxpage = 1,
                      !.serviceTop = 2, !.skip = s] :
          r \in {"db", "memory"}, s \in {None, 1}}
  \cup {[First EXCEPT !.restrict = "memory", !.count = TRUE],
        [First EXCEPT !.top = 0],
        [First EXCEPT !.entityTop = 2, !.serviceTop = 1, !.count = TRUE],
        [First EXCEPT !.token = Garbage],
        [First EXCEPT !.token = Token(1, 1, None), !.skip = 1]}
=============================================================================
