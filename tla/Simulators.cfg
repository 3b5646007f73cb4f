CONSTANTS
    Inputs = {"x", "rst"}
    Wires = {"a", "t", "b"}
    Regs = {"p", "r", "q"}
    ChildSignals = {"ci1", "ci2", "co1", "co2", "w1"}
    InputPorts = {"ci1", "ci2"}
    Outputs = {"b", "co1", "co2"}
    Clocks = {"c1", "c2"}
    Mem = "m"
    Order <- SignalOrder
    Path <- SignalPath
    Engines = {"scalar", "packed", "bit parallel", "bit parallel aot", "bit slice", "shader"}
    CompiledEngines = {"jit", "jit activity", "jit buffers", "vector jit", "bit parallel jit", "aot", "kernel"}
    DesignsOf <- MCDesignsOf
    Strategies <- MCStrategies
SPECIFICATION MCSpec
CHECK_DEADLOCK FALSE
INVARIANTS
    SimulatorsAgree
    PartitionsAgree
