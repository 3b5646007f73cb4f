CONSTANTS
    Inputs = {"x", "rst"}
    Wires = {"a", "t", "b"}
    Regs = {"p", "r", "q"}
    ChildSignals = {"ci1", "ci2", "co1", "co2", "w1"}
    InputPorts = {"ci1", "ci2"}
    Outputs = {"b", "co1", "co2"}
    Clocks = {"c1", "c2"}
    Mem = "m"
    Order <- SignalOrder
    Path <- SignalPath
    Engines = {"packed"}
    CompiledEngines = {}
    DesignsOf <- AsyncDesignsOf
    Strategies <- NoStrategies
SPECIFICATION MCSpec
CHECK_DEADLOCK FALSE
INVARIANT SimulatorsAgree
