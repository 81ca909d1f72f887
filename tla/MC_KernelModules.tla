-------------------------- MODULE MC_KernelModules --------------------------
EXTENDS KernelModules

Pci(id, bar, maps, priv, speed) ==
    [id |-> id, bar |-> bar, maps |-> maps, priv |-> priv, speed |-> speed]
MCDevices == << Pci("host", TRUE, TRUE, TRUE, "fast"), Pci("i2c0", TRUE, TRUE, TRUE, "fast"),
                Pci("i2c1", TRUE, FALSE, TRUE, "fast"), Pci("i2c2", TRUE, TRUE, FALSE, "high"),
                Pci("i2c3", FALSE, TRUE, TRUE, "fast") >>
MCKnown == {"i2c0", "i2c1", "i2c2", "i2c3"}
Other == [gnvs |-> FALSE, addr |-> "", len |-> ""]
Gnvs(a, l) == [gnvs |-> TRUE, addr |-> a, len |-> l]
MCTables == { <<>>, <<Other, Gnvs("dword", "word"), Other>>, <<Gnvs("qword", "dword"), Gnvs("other", "byte"), Other>>,
              <<Gnvs("dword", "other"), Other>>, <<Other, Gnvs("dword", "word")>> }
=============================================================================
