----------------------------- MODULE MCUnmarshal -----------------------------
(* An instance of Unmarshal for TLC: types with every kind of field at     *)
(* every kind of place.                                                    *)
EXTENDS Unmarshal, TLC

Names == {"a", "b", "c", "d"}

Keys == {<<"a", "b">>, <<"a", "b", "c">>, <<"a", "c">>, <<"c">>}

\* A number an int8 does not hold, and a word.
Values == {[type |-> "int", n |-> 300], [type |-> "string", n |-> NoNumber]}

Field(tag, t) == [tag |-> tag, type |-> t]
String == Basic("string")
Int8 == Basic("int8")
Interface == Basic("interface")

Inner == Struct(<<Field("b", Int8), Field("c", String)>>)
Leaf == Struct(<<Field("c", Int8)>>)

Default == [type |-> "string", n |-> NoNumber]

\* Objects of these types that hold something, beside empty ones.
Filled ==
  (Struct(<<Field("a", PtrTo(Inner)), Field("-", String), Field("c", String)>>)
     :> ((<<"a">> :> Mark("pointer")) @@ (<<"a", "c">> :> Default)
           @@ (<<"c">> :> Default)))
  @@ (Struct(<<Field("c", String), Field("a", MapOf(String))>>)
        :> ((<<"c">> :> Default) @@ (<<"a">> :> Mark("map"))
              @@ (<<"a", "d">> :> Default)))
  @@ (Struct(<<Field("c", Int8), Field("a", MapOf(PtrTo(Leaf)))>>)
        :> ((<<"a">> :> Mark("map")) @@ (<<"a", "d">> :> Mark("pointer"))
              @@ (<<"a", "d", "c">> :> [type |-> "int8", n |-> 1])))
  @@ (Struct(<<Field("a", MapOf(Leaf)), Field("c", Interface)>>) :> <<>>)
  @@ (Struct(<<Field("a", MapOf(MapOf(String)))>>) :> <<>>)
  @@ (Struct(<<Field("a", MapOf(Interface))>>) :> <<>>)
  @@ (MapOf(Interface) :> <<>>)
  @@ (PtrTo(MapOf(Interface)) :> <<>>)
  @@ (MapOf(String) :> <<>>)

Types == DOMAIN Filled
Objects == [t \in Types |-> {<<>>, Filled[t]}]

RECURSIVE Within(_)
\* A place with all that come of it.
Within(place) == {place} \cup UNION {Within(part) : part \in Parts(place)}

Places == [t \in Types |-> Within([path |-> <<>>, type |-> t, inMap |-> FALSE])]
=============================================================================
