----------------------------- MODULE MCDialGate -----------------------------
(* DialGate on a small store: a booking (auto by default), a tanker call    *)
(* (advise by default) and the engage that flies a laid course.             *)
EXTENDS DialGate, TLC

MCSurfaces == {"freight.book", "navigation.rescue", "navigation.course"}
MCFamilies == {"freight", "navigation"}
MCAdviseFloor == {"navigation.rescue"}
MCFamilyOf == "freight.book" :> "freight" @@ "navigation.rescue" :> "navigation"
              @@ "navigation.course" :> "navigation"

MCIntents == {"book", "paws", "engage"}
MCSurfaceOf == "book" :> "freight.book" @@ "paws" :> "navigation.rescue"
               @@ "engage" :> "navigation.course"
MCEngages == {"engage"}

MCCourses == {"hold here"}

ConfirmAll == SetKey(DefaultDial, "*", "confirm")
MCPuts == {ConfirmAll}
MCSets == {<<"navigation.rescue", "auto">>}
=============================================================================
