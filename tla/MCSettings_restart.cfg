SPECIFICATION SSpec
CONSTANT SliderValues <- TwoValues
PROPERTY RestartRestoresAll
