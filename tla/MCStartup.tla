----------------------------- MODULE MCStartup -----------------------------
(* Two fronts of one and two endpoints, two flows, and five configurations:  *)
(* a base, other flags, smaller caps, another layout, fewer endpoints alone. *)
EXTENDS Startup

Shape(l, c, f) == [layout |-> l, cap |-> c, flags |-> f]

ShapesOf(meta, endpoints, flow) ==
    [name \in NameSet |-> IF name = "FRONT_META" THEN meta
                          ELSE IF name = "FRONT_ENDPOINTS" THEN endpoints ELSE flow]

MCShapes ==
    [base   |-> ShapesOf(Shape(1, 2, 0), Shape(1, 5, 0), Shape(1, 2, 0)),
     flags  |-> ShapesOf(Shape(1, 2, 0), Shape(1, 5, 1), Shape(1, 2, 1)),
     small  |-> ShapesOf(Shape(1, 1, 0), Shape(1, 3, 0), Shape(1, 1, 0)),
     layout |-> ShapesOf(Shape(2, 2, 0), Shape(1, 5, 0), Shape(1, 2, 0)),
     fewer  |-> ShapesOf(Shape(1, 2, 0), Shape(1, 2, 0), Shape(1, 2, 0))]

MCUplinks == [base |-> {1, 2}, flags |-> {1}, small |-> {1}, layout |-> {1, 2}, fewer |-> {1}]
MCSlots == <<1, 2>>
=============================================================================
