--------------------------- MODULE MCHardwareEngines ---------------------------
(* A small instance: an encrypted box with a volume in it, two more volumes on *)
(* the one drive, two batteries of the computer and one of a mouse.            *)
EXTENDS HardwareEngines, TLC

MCInterfaces == [drive |-> {"drive"},
                 box |-> {"volume", "access", "encrypted"},
                 clear |-> {"volume", "access"},
                 stick |-> {"volume", "access"},
                 card |-> {"volume", "access"},
                 blank |-> {"volume", "unused"},
                 bat0 |-> {"battery", "supply"},
                 bat1 |-> {"battery", "supply"},
                 mouse |-> {"battery"}]
MCEncryptedContainer == [u \in DOMAIN MCInterfaces |-> IF u = "clear" THEN "box" ELSE NoDevice]
MCQueries == [volumes |-> "volume", batteries |-> "battery"]
MCBatteryName == [n \in 0 .. Cardinality(DOMAIN MCInterfaces) |-> "Battery" \o ToString(n)]
MCActions == [open |-> "access", copy |-> "volume"]
MCPlugins == {"soliddevice", "hotplug", "devicenotifications", "powermanagement"}
MCDevices == [soliddevice |-> {"drive", "box", "clear", "stick", "bat0"},
              hotplug |-> {"box", "clear", "blank"},
              devicenotifications |-> {"stick", "card"},
              powermanagement |-> {"bat0", "bat1", "mouse"}]
MCAsked == [soliddevice |-> {{"drive", "box", "clear", "volumes"}, {"stick", "bat0", "batteries"}},
            hotplug |-> {}, devicenotifications |-> {},
            powermanagement |-> {{"Battery"}, {"Inhibitions", "Power Profiles"}}]
MCMaxChanges == [soliddevice |-> 3, hotplug |-> 5, devicenotifications |-> 5, powermanagement |-> 3]
=============================================================================
