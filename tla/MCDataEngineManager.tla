------------------------ MODULE MCDataEngineManager ------------------------
(* Two widgets, and a weather engine that loads an ion. *)
EXTENDS DataEngineManager

MCConsumers == {"widget1", "widget2", "weather"}
MCNames == {"weather", "ion"}
MCOwner == [c \in MCConsumers |-> IF c = "weather" THEN "weather" ELSE NoEngine]

=============================================================================
