-------------------------- MODULE MC_DeviceInstall --------------------------
EXTENDS DeviceInstall

Chain(values) == [n \in DeviceNames |-> IF n \in DOMAIN values THEN values[n] ELSE None]
Endpoint(i, c, d) == [input |-> i, combined |-> c, driver |-> d]
Legacy == Chain([lfx |-> "vendor1", gfx |-> "vendor2", disableEnhancements |-> "true"])
Modern == Chain([sfx |-> "vendor1", efx |-> "vendor2", sfxModes |-> "vendorModes"])
MCDevices == {Endpoint(FALSE, FALSE, Gone), Endpoint(FALSE, TRUE, Chain([n \in {} |-> ""])),
              Endpoint(FALSE, TRUE, Legacy), Endpoint(FALSE, FALSE, Modern), Endpoint(TRUE, FALSE, Modern)}
Select(m, p, q, a, e) ==
  [mode |-> m, pre |-> p, post |-> q, usePre |-> p, usePost |-> q, adjust |-> a, exclusive |-> e]
MCSelections ==
  {Select("LFX_GFX", TRUE, TRUE, TRUE, FALSE), Select("SFX_MFX", FALSE, TRUE, FALSE, TRUE),
   Select("SFX_EFX", TRUE, FALSE, TRUE, TRUE), Select("SFX_EFX", FALSE, FALSE, TRUE, FALSE)}
=============================================================================
