SPECIFICATION Spec
CONSTANTS
    None = None
    NaN = NaN
    Failed = Failed
    Config <- MCConfig
    Presented <- MCPresented
    Meminfo <- MCMeminfo
    Filesystems <- MCFilesystems
    Hwmon <- MCHwmon
INVARIANT TypeOK
INVARIANT SensorsApart
INVARIANT DisksOnce
INVARIANT PointsStorable
INVARIANT CategoriesIndependent
