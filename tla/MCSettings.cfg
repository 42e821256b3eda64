SPECIFICATION SSpec
CONSTANT SliderValues <- TwoValues
INVARIANT STypeOK
PROPERTY RestartRestores
